---- MODULE Spec2Model ----
(***************************************************************************)
(* Session coordinator of playerzero-server: src/server.js (socket.io      *)
(* handlers, round timer, market simulator) over src/unnamed/part_000      *)
(* (GameDatabase and the games table).                                     *)
(*                                                                         *)
(* JavaScript runs the handlers on one thread: a handler runs without      *)
(* interruption until it reaches an `await`.  Every action below is one    *)
(* such uninterrupted segment.  An await of the persistent store takes     *)
(* three steps: the segment that sends the request (handler pc = "db"),    *)
(* the store executing it (DbExec, pc becomes "run"), and the segment that *)
(* runs when the reply has arrived.                                        *)
(*                                                                         *)
(* Maps of the program (activeGameStates, players, gameTimers,             *)
(* inactivityTimers, the games table) are functions whose DOMAIN is the    *)
(* set of keys present.                                                    *)
(***************************************************************************)
EXTENDS Integers, Sequences, FiniteSets, TLC

VARIABLES
    activeGameStates,  \* Map gameId -> game state          (server.js:28)
    players,           \* Map socketId -> playerInfo        (server.js:29)
    gameTimers,        \* Map gameId -> interval handle     (server.js:30)
    inactivityTimers,  \* Map gameId -> timeout handle      (server.js:31)
    intervals,         \* live setInterval callbacks: set of [id, g]
    timeouts,          \* pending setTimeout callbacks: set of [id, g]
    db,                \* rows of table games, by game_id   (part_000:365)
    rooms,             \* socket.io room of each game: set of socket ids
    sockets,           \* connections that are still open
    handlers,          \* handlers suspended on an await
    emitted,           \* the last socket.emit: [to, event]
    nextPlayerId,      \* number of ids drawn from generatePlayerId
    nActions,          \* player actions, price updates, market events, clock steps so far
    nJoined,           \* players join-game has added so far
    ticks,             \* round-timer ticks that found their game running, so far
    trip               \* history: a Buy being followed up to its matching Sell

vars == << activeGameStates, players, gameTimers, inactivityTimers, intervals,
           timeouts, db, rooms, sockets, handlers, emitted, nextPlayerId,
           nActions, nJoined, ticks, trip >>

----------------------------------------------------------------------------
(* Bounds of the model *)

MaxGenerated == 4
MaxJoined == 4
MaxLobbyJoined == 3
MaxInflight == 2
MaxActions == 3
MaxIntervals == 1
MaxExtraRounds == 1
\* Player actions in a run that fills the list of recent actions
MaxLoggedActions == 11
\* Round timers at a time, where a game is started more than once
MaxRestartIntervals == 2
\* Minutes after which a row no longer grows older (past every cutoff)
MaxMinutes == 1500

(* Program constants *)

MaxPlayers == 4
MaxRounds == 20
StartTokens == 1000
SabotageCost == 100
MinPlayersToStart == 2
RoundDelaySeconds == 10
MaxRecentActions == 10
BurnFactor == 3
MaxChange == 50
NoWallet == 0
Undefined == -1

GameIds == {"G1", "G2"}
SocketIds == {"s1", "s2", "s3"}
Resources == {"gold", "water", "oil"}

\* The wallet address each client sends with create-game and join-game:
\* two clients without a wallet, one with wallet 101.
WalletOf(s) == IF s = "s3" THEN 101 ELSE NoWallet

----------------------------------------------------------------------------
(* Maps *)

EmptyMap == [x \in {} |-> 0]
MapSet(m, k, v) == [x \in (DOMAIN m) \cup {k} |-> IF x = k THEN v ELSE m[x]]
MapDelete(m, k) == [x \in (DOMAIN m) \ {k} |-> m[x]]

----------------------------------------------------------------------------
(* Game and player state *)

DefaultMarketPrices == [gold |-> 100, water |-> 50, oil |-> 150]

NoDelay == [active |-> FALSE, timeRemaining |-> 0]

OneMinute == [hours |-> 0, minutes |-> 1, seconds |-> 0]

createInitialGameState ==
    [ currentRound |-> 1,
      maxRounds |-> MaxRounds,
      timeRemaining |-> OneMinute,
      players |-> <<>>,
      marketChanges |-> [r \in Resources |-> 0],
      marketPrices |-> DefaultMarketPrices,
      recentActions |-> <<>>,
      actionHistory |-> EmptyMap,
      status |-> "waiting",
      host |-> 0,
      timerActive |-> FALSE,
      isPrivate |-> FALSE,
      \* fields the template does not have until a handler adds them
      exitedPlayers |-> {},
      roundDelay |-> NoDelay,
      winner |-> <<>>,
      finalScores |-> <<>> ]

createPlayer(playerId, playerName, socketId, walletAddress) ==
    [ id |-> playerId,
      name |-> playerName,
      socketId |-> socketId,
      walletAddress |-> walletAddress,
      tokens |-> StartTokens,
      assets |-> [r \in Resources |-> 0],
      totalAssets |-> 0,
      connected |-> TRUE ]

\* walletAddress || generatePlayerId()
PlayerIdFor(walletAddress) ==
    IF walletAddress # NoWallet THEN walletAddress ELSE nextPlayerId + 1

NextPlayerIdAfter(walletAddress) ==
    IF walletAddress # NoWallet THEN nextPlayerId ELSE nextPlayerId + 1

\* The state join-game and get-game-state rebuild from a row of games
Reconstruct(row) ==
    [ row.game_state EXCEPT
        !.players = row.players,
        !.isPrivate = (row.visibility = "private"),
        !.status = row.status,
        !.host = row.host_player_id ]

----------------------------------------------------------------------------
(* Persistent store: table games *)

AllowedStatus == {"waiting", "playing", "finished"}

NoReq ==
    [kind |-> "none", g |-> "G1", row |-> <<>>, players |-> <<>>, status |-> "",
     old |-> 0]
InsertReq(g, row) == [NoReq EXCEPT !.kind = "insert", !.g = g, !.row = <<row>>]
GetReq(g) == [NoReq EXCEPT !.kind = "get", !.g = g]
UpdatePlayersReq(g, ps) == [NoReq EXCEPT !.kind = "updatePlayers", !.g = g, !.players = ps]
UpdateStatusReq(g, st) == [NoReq EXCEPT !.kind = "updateStatus", !.g = g, !.status = st]
\* The queries of the cleanup; old is the age, in minutes, of the cutoff time
SelectStaleReq(minutesOld) == [NoReq EXCEPT !.kind = "selectStale", !.old = minutesOld]
DeleteStaleReq(minutesOld) == [NoReq EXCEPT !.kind = "deleteStale", !.old = minutesOld]
SelectAbandonedReq(hoursOld) ==
    [NoReq EXCEPT !.kind = "selectAbandoned", !.old = hoursOld * 60]
DeleteAbandonedReq(hoursOld) ==
    [NoReq EXCEPT !.kind = "deleteAbandoned", !.old = hoursOld * 60]
DeleteOldReq(hoursOld) == [NoReq EXCEPT !.kind = "deleteOld", !.old = hoursOld * 60]
PublicGamesReq == [NoReq EXCEPT !.kind = "getPublicGames"]

\* GameDatabase.createGame: the row inserted.  Of created_at and updated_at
\* the row keeps the minutes gone by since: age and idle.
NewRow(gameData) ==
    [ age |-> 0,
      idle |-> 0,
      status |-> "waiting",
      visibility |-> IF gameData.isPrivate THEN "private" ELSE "public",
      players |-> gameData.players,
      game_state |-> gameData.gameState,
      host_player_id |-> gameData.hostPlayerId,
      current_players |-> Len(gameData.players),
      max_players |-> MaxPlayers ]

\* A stale-open filter that also takes the rows updated at the cutoff time
StaleOpenAtCutoff(row, minutesOld) ==
    row.status = "waiting" /\ row.visibility = "public" /\ row.idle >= minutesOld

\* part_000:243-248 and 259-264: .eq('status', 'waiting')
\* .eq('visibility', 'public') .lt('updated_at', cutoffTime)
StaleOpen(row, minutesOld) ==
    row.status = "waiting" /\ row.visibility = "public" /\ row.idle > minutesOld

\* part_000:290-295 and 306-311: .eq('status', 'waiting')
\* .eq('current_players', 1) .lt('created_at', cutoffTime)
Abandoned(row, minutesOld) ==
    row.status = "waiting" /\ row.current_players = 1 /\ row.age > minutesOld

\* part_000:217-221: .eq('status', 'finished') .lt('updated_at', cutoffTime)
OldFinished(row, minutesOld) ==
    row.status = "finished" /\ row.idle > minutesOld

\* part_000:401-415: the view public_games
InPublicGames(row) ==
    /\ row.visibility = "public"
    /\ row.status = "waiting"
    /\ row.current_players < row.max_players

\* The table without the rows of the ids
Without(ids) == [g \in (DOMAIN db) \ ids |-> db[g]]

\* The table after the store has executed a request; the trigger of
\* part_000:387-398 renews updated_at with every update
DbAfter(req) ==
    CASE req.kind = "insert" ->
           \* game_id is UNIQUE: a second insert of the id is refused
           IF req.g \in DOMAIN db THEN db ELSE MapSet(db, req.g, req.row[1])
      [] req.kind = "updatePlayers" ->
           IF req.g \in DOMAIN db
           THEN [db EXCEPT ![req.g].players = req.players,
                           ![req.g].current_players = Len(req.players),
                           ![req.g].idle = 0]
           ELSE db
      [] req.kind = "updateStatus" ->
           \* CHECK (status IN ('waiting', 'playing', 'finished'))
           IF req.g \in DOMAIN db /\ req.status \in AllowedStatus
           THEN [db EXCEPT ![req.g].status = req.status, ![req.g].idle = 0]
           ELSE db
      [] req.kind = "deleteStale" ->
           Without({g \in DOMAIN db : StaleOpen(db[g], req.old)})
      [] req.kind = "deleteAbandoned" ->
           Without({g \in DOMAIN db : Abandoned(db[g], req.old)})
      [] req.kind = "deleteOld" ->
           Without({g \in DOMAIN db : OldFinished(db[g], req.old)})
      [] OTHER -> db

\* What the caller gets back: <<row>>, or <<>> for null
DbReply(req) ==
    CASE req.kind = "insert" ->
           IF req.g \in DOMAIN db THEN <<>> ELSE req.row
      [] req.kind = "updateStatus" ->
           IF req.g \in DOMAIN db /\ req.status \in AllowedStatus
           THEN << DbAfter(req)[req.g] >> ELSE <<>>
      [] req.kind \in {"get", "updatePlayers"} ->
           IF req.g \in DOMAIN db THEN << DbAfter(req)[req.g] >> ELSE <<>>
      [] OTHER -> <<>>

\* The ids of the rows a select of the cleanup, or of the view, finds
DbFound(req) ==
    CASE req.kind = "selectStale" ->
           {g \in DOMAIN db : StaleOpen(db[g], req.old)}
      [] req.kind = "selectAbandoned" ->
           {g \in DOMAIN db : Abandoned(db[g], req.old)}
      [] req.kind = "getPublicGames" ->
           {g \in DOMAIN db : InPublicGames(db[g])}
      [] OTHER -> {}

----------------------------------------------------------------------------
(* Suspended handlers *)

NoPlayer == createPlayer(0, "", "", NoWallet)

Handler(op, at, s, g, req) ==
    [ op |-> op, at |-> at, pc |-> "db", s |-> s, g |-> g, req |-> req,
      reply |-> <<>>, player |-> NoPlayer, game |-> createInitialGameState,
      timer |-> 0, reason |-> "", found |-> {}, staleGamesRemoved |-> 0,
      abandonedGamesRemoved |-> 0 ]

CanSuspend == Cardinality(handlers) < MaxInflight

\* join-game handlers that have not yet reached the check of server.js:225,
\* and those of them that will draw a generated id
PendingJoins(hs) == {h \in hs : h.op = "join" /\ h.at = "getGame"}
PendingGenerated(hs) == {h \in PendingJoins(hs) : WalletOf(h.s) = NoWallet}

\* Bounds: room for one more player added by join-game / one more generated id
CanAddPlayer(hs) == nJoined + Cardinality(PendingJoins(hs)) < MaxJoined
CanGenerate(s, hs) ==
    WalletOf(s) = NoWallet =>
        nextPlayerId + Cardinality(PendingGenerated(hs)) < MaxGenerated

\* The store executes the request of a suspended handler
DbExec(h) ==
    /\ h \in handlers
    /\ h.pc = "db"
    /\ db' = DbAfter(h.req)
    /\ handlers' = (handlers \ {h}) \cup
                      {[h EXCEPT !.pc = "run", !.reply = DbReply(h.req),
                                 !.found = DbFound(h.req)]}
    /\ UNCHANGED << activeGameStates, players, gameTimers, inactivityTimers,
                    intervals, timeouts, rooms, sockets, emitted, nextPlayerId,
                    nActions, nJoined, ticks, trip >>

Ready(h, op, at) == h \in handlers /\ h.op = op /\ h.at = at /\ h.pc = "run"

Emit(s, event) == [to |-> s, event |-> event]

----------------------------------------------------------------------------
(* create-game *)

\* server.js:117-150, up to the await of GameDatabase.createGame
CreateGame(s, g, isPrivate) ==
    /\ s \in sockets
    /\ CanSuspend
    /\ CanGenerate(s, handlers)
    /\ LET playerId == PlayerIdFor(WalletOf(s))
           player == createPlayer(playerId, s, s, WalletOf(s))
           gameState == [createInitialGameState EXCEPT
                           !.players = <<player>>,
                           !.host = playerId,
                           !.isPrivate = isPrivate]
           row == NewRow([isPrivate |-> isPrivate, players |-> <<player>>,
                          gameState |-> gameState, hostPlayerId |-> playerId])
       IN handlers' = handlers \cup
              {[Handler("create", "createGame", s, g, InsertReq(g, row))
                  EXCEPT !.game = gameState, !.player = player]}
    /\ nextPlayerId' = NextPlayerIdAfter(WalletOf(s))
    /\ UNCHANGED << activeGameStates, players, gameTimers, inactivityTimers,
                    intervals, timeouts, db, rooms, sockets, emitted,
                    nActions, nJoined, ticks, trip >>

\* server.js:152-173, after the await
CreateGameResume(h) ==
    /\ Ready(h, "create", "createGame")
    /\ handlers' = handlers \ {h}
    /\ IF h.reply = <<>>
       THEN /\ emitted' = Emit(h.s, "error: Failed to create game")
            /\ UNCHANGED << activeGameStates, players, rooms >>
       ELSE /\ activeGameStates' = MapSet(activeGameStates, h.g, h.game)
            /\ players' = MapSet(players, h.s,
                                 [gameId |-> h.g, playerId |-> h.player.id,
                                  playerName |-> h.player.name])
            /\ rooms' = [rooms EXCEPT ![h.g] = @ \cup {h.s}]
            /\ emitted' = Emit(h.s, "game-created")
    /\ UNCHANGED << gameTimers, inactivityTimers, intervals, timeouts, db,
                    sockets, nextPlayerId, nActions, nJoined, ticks, trip >>

----------------------------------------------------------------------------
(* Timers *)

\* A handle no live timer and no map entry uses
FreshHandle(used) == CHOOSE n \in 1..(Cardinality(used) + 1) : n \notin used

HandlesInUse ==
    {t.id : t \in intervals \cup timeouts}
        \cup {gameTimers[g] : g \in DOMAIN gameTimers}
        \cup {inactivityTimers[g] : g \in DOMAIN inactivityTimers}

\* The handle setTimeout returns in resetInactivityTimer: the timeout it
\* replaces is cleared by then, and no code holds its handle any more
ResetHandle(g, its) ==
    FreshHandle(HandlesInUse \ (IF g \in DOMAIN its THEN {its[g]} ELSE {}))

\* server.js:765-781 resetInactivityTimer, on the maps it is given
TimeoutsAfterReset(g, its, tos) ==
    LET cleared == IF g \in DOMAIN its THEN {t \in tos : t.id # its[g]} ELSE tos
    IN cleared \cup {[id |-> ResetHandle(g, its), g |-> g]}

InactivityAfterReset(g, its) == MapSet(its, g, ResetHandle(g, its))

\* server.js:720-731: closeGame clears and forgets both handles of the game
IntervalsAfterClose(g) ==
    IF g \in DOMAIN gameTimers
    THEN {t \in intervals : t.id # gameTimers[g]} ELSE intervals

TimeoutsAfterClose(g, its, tos) ==
    IF g \in DOMAIN its THEN {t \in tos : t.id # its[g]} ELSE tos

----------------------------------------------------------------------------
(* join-game *)

\* A join-game that lets a fifth player in
JoinRefusalOverFull(game) ==
    IF Len(game.players) > MaxPlayers THEN "error: Game is full"
    ELSE IF game.status # "waiting" THEN "error: Game already in progress"
    ELSE "ok"

\* server.js:225-233: the two refusals of join-game
JoinRefusal(game) ==
    IF Len(game.players) >= MaxPlayers THEN "error: Game is full"
    ELSE IF game.status # "waiting" THEN "error: Game already in progress"
    ELSE "ok"

\* server.js:225-249, with the game in memory (ags) and the other suspended
\* handlers (hs): refuse, or add the player, bind the socket and suspend on
\* GameDatabase.addPlayerToGame (which starts with getGame, part_000:140)
JoinCheck(s, g, ags, hs) ==
    LET game == ags[g]
        playerId == PlayerIdFor(WalletOf(s))
        player == createPlayer(playerId, s, s, WalletOf(s))
    IN IF JoinRefusal(game) # "ok"
       THEN /\ activeGameStates' = ags
            /\ handlers' = hs
            /\ emitted' = Emit(s, JoinRefusal(game))
            /\ UNCHANGED << players, nextPlayerId, nJoined >>
       ELSE /\ CanAddPlayer(hs)
            /\ CanGenerate(s, hs)
            /\ nJoined' = nJoined + 1
            /\ activeGameStates' =
                  [ags EXCEPT ![g].players = Append(@, player)]
            /\ players' = MapSet(players, s,
                                 [gameId |-> g, playerId |-> playerId,
                                  playerName |-> s])
            /\ handlers' = hs \cup
                  {[Handler("join", "addPlayerToGame.getGame", s, g, GetReq(g))
                      EXCEPT !.player = player]}
            /\ nextPlayerId' = NextPlayerIdAfter(WalletOf(s))
            /\ UNCHANGED emitted

\* server.js:190-199: the event arrives; on a miss in memory the handler
\* suspends on GameDatabase.getGame
JoinGame(s, g) ==
    /\ s \in sockets
    /\ CanSuspend
    /\ IF g \in DOMAIN activeGameStates
       THEN JoinCheck(s, g, activeGameStates, handlers)
       ELSE /\ CanAddPlayer(handlers)
            /\ CanGenerate(s, handlers)
            /\ handlers' = handlers \cup {Handler("join", "getGame", s, g, GetReq(g))}
            /\ UNCHANGED << activeGameStates, players, emitted, nextPlayerId,
                            nJoined >>
    /\ UNCHANGED << gameTimers, inactivityTimers, intervals, timeouts, db,
                    rooms, sockets, nActions, ticks, trip >>

\* server.js:199-249: getGame has answered
JoinGameLoaded(h) ==
    /\ Ready(h, "join", "getGame")
    /\ IF h.reply = <<>>
       THEN /\ emitted' = Emit(h.s, "error: Game not found")
            /\ handlers' = handlers \ {h}
            /\ UNCHANGED << activeGameStates, players, nextPlayerId, nJoined >>
       ELSE JoinCheck(h.s, h.g,
                      MapSet(activeGameStates, h.g, Reconstruct(h.reply[1])),
                      handlers \ {h})
    /\ UNCHANGED << gameTimers, inactivityTimers, intervals, timeouts, db,
                    rooms, sockets, nActions, ticks, trip >>

\* server.js:251-270: addPlayerToGame has returned
JoinGameDone(h) ==
    /\ rooms' = [rooms EXCEPT ![h.g] = @ \cup {h.s}]
    /\ emitted' = Emit(h.s, "game-joined")
    /\ handlers' = handlers \ {h}

\* part_000:140-155: inside addPlayerToGame, getGame has answered
AddPlayerToGameLoaded(h) ==
    /\ Ready(h, "join", "addPlayerToGame.getGame")
    /\ IF h.reply = <<>>
       THEN JoinGameDone(h)
       ELSE /\ handlers' = (handlers \ {h}) \cup
                  {[h EXCEPT !.at = "addPlayerToGame.update", !.pc = "db",
                             !.reply = <<>>,
                             !.req = UpdatePlayersReq(h.g,
                                         Append(h.reply[1].players, h.player))]}
            /\ UNCHANGED << rooms, emitted >>
    /\ UNCHANGED << activeGameStates, players, gameTimers, inactivityTimers,
                    intervals, timeouts, db, sockets, nextPlayerId, nActions,
                    nJoined, ticks, trip >>

\* part_000:157-162 and server.js:251-270: the update has answered
AddPlayerToGameUpdated(h) ==
    /\ Ready(h, "join", "addPlayerToGame.update")
    /\ JoinGameDone(h)
    /\ UNCHANGED << activeGameStates, players, gameTimers, inactivityTimers,
                    intervals, timeouts, db, sockets, nextPlayerId, nActions,
                    nJoined, ticks, trip >>

----------------------------------------------------------------------------
(* get-game-state *)

\* server.js:278-333
GetGameState(s, g) ==
    /\ s \in sockets
    /\ IF g = ""
       THEN /\ emitted' = Emit(s, "error: No game ID provided")
            /\ UNCHANGED handlers
       ELSE IF g \in DOMAIN activeGameStates
       THEN /\ emitted' = Emit(s, "game-state")
            /\ UNCHANGED handlers
       ELSE /\ CanSuspend
            /\ handlers' = handlers \cup
                  {Handler("get-game-state", "getGame", s, g, GetReq(g))}
            /\ UNCHANGED emitted
    /\ UNCHANGED << activeGameStates, players, gameTimers, inactivityTimers,
                    intervals, timeouts, db, rooms, sockets, nextPlayerId,
                    nActions, nJoined, ticks, trip >>

\* server.js:298-333: getGame has answered
GetGameStateLoaded(h) ==
    /\ Ready(h, "get-game-state", "getGame")
    /\ handlers' = handlers \ {h}
    /\ IF h.reply = <<>>
       THEN /\ emitted' = Emit(h.s, "error: Game not found")
            /\ UNCHANGED activeGameStates
       ELSE /\ activeGameStates' =
                  MapSet(activeGameStates, h.g, Reconstruct(h.reply[1]))
            /\ emitted' = Emit(h.s, "game-state")
    /\ UNCHANGED << players, gameTimers, inactivityTimers, intervals, timeouts,
                    db, rooms, sockets, nextPlayerId, nActions, nJoined,
                    ticks, trip >>

----------------------------------------------------------------------------
(* Host check *)

\* game.players.find((p) => p.id === id)?.walletAddress
WalletOfPlayer(game, id) ==
    LET hits == SelectSeq(game.players, LAMBDA p : p.id = id)
        found == IF hits = <<>> THEN <<>> ELSE <<Head(hits)>>
    IN IF found = <<>> THEN Undefined ELSE found[1].walletAddress

\* server.js:349-354 and 462-467: the three criteria
IsHost(game, playerId) ==
    \/ game.host = playerId
    \/ WalletOfPlayer(game, playerId) = WalletOfPlayer(game, game.host)
    \/ (Len(game.players) > 0 /\ game.players[1].id = playerId)

----------------------------------------------------------------------------
(* start-game *)

StartsInFlight == {h \in handlers : h.op = "start"}

\* A start-game that asks for no second player
StartRefusalNoMinimum(game, playerId) ==
    IF ~IsHost(game, playerId) THEN "error: Only the host can start the game"
    ELSE "ok"

\* server.js:369-377: the refusals of start-game
StartRefusal(game, playerId) ==
    IF ~IsHost(game, playerId) THEN "error: Only the host can start the game"
    ELSE IF Len(game.players) < MinPlayersToStart
         THEN "error: Need at least 2 players to start"
    ELSE "ok"

\* server.js:341-384, up to the await of updateGameStatus.  Without a binding
\* the handler returns at once (no step).  game.host of a game that is not in
\* memory throws, and the catch reports it.
StartGameWithin(s, maxIntervals) ==
    /\ s \in sockets
    /\ s \in DOMAIN players
    /\ LET playerInfo == players[s]
           g == playerInfo.gameId
       IN IF g \notin DOMAIN activeGameStates
          THEN /\ emitted' = Emit(s, "error: Failed to start game")
               /\ UNCHANGED << activeGameStates, handlers >>
          ELSE IF StartRefusal(activeGameStates[g], playerInfo.playerId) # "ok"
          THEN /\ emitted' =
                     Emit(s, StartRefusal(activeGameStates[g], playerInfo.playerId))
               /\ UNCHANGED << activeGameStates, handlers >>
          ELSE /\ CanSuspend
               /\ Cardinality(intervals) + Cardinality(StartsInFlight) < maxIntervals
               /\ activeGameStates' = [activeGameStates EXCEPT
                                         ![g].status = "playing",
                                         ![g].timerActive = TRUE]
               /\ handlers' = handlers \cup
                     {Handler("start", "updateGameStatus", s, g,
                              UpdateStatusReq(g, "playing"))}
               /\ UNCHANGED emitted
    /\ UNCHANGED << players, gameTimers, inactivityTimers, intervals, timeouts,
                    db, rooms, sockets, nextPlayerId, nActions, nJoined,
                    ticks, trip >>

StartGame(s) == StartGameWithin(s, MaxIntervals)

\* server.js:386-392 and 784-883: after the await, startGameTimer resets the
\* inactivity timer, starts a new interval and stores its handle
StartGameResume(h) ==
    /\ Ready(h, "start", "updateGameStatus")
    /\ handlers' = handlers \ {h}
    /\ timeouts' = TimeoutsAfterReset(h.g, inactivityTimers, timeouts)
    /\ inactivityTimers' = InactivityAfterReset(h.g, inactivityTimers)
    /\ LET timer == FreshHandle(HandlesInUse \cup {ResetHandle(h.g, inactivityTimers)})
       IN /\ intervals' = intervals \cup {[id |-> timer, g |-> h.g]}
          /\ gameTimers' = MapSet(gameTimers, h.g, timer)
    /\ UNCHANGED << activeGameStates, players, db, rooms, sockets, emitted,
                    nextPlayerId, nActions, nJoined, ticks, trip >>

----------------------------------------------------------------------------
(* closeGame *)

\* server.js:742-756: after the await, every connected socket of the room
\* leaves it and loses its binding to the game
BindingsAfterClose(g, ps) ==
    LET gone == {s \in rooms[g] \cap sockets :
                    s \in DOMAIN ps /\ ps[s].gameId = g}
    IN [s \in (DOMAIN ps) \ gone |-> ps[s]]

RoomAfterClose(g) == rooms[g] \ sockets

\* A closeGame that leaves the session in memory
CloseGameKeepsSession(op, s, g, its, tos) ==
    /\ intervals' = IntervalsAfterClose(g)
    /\ gameTimers' = MapDelete(gameTimers, g)
    /\ timeouts' = TimeoutsAfterClose(g, its, tos)
    /\ inactivityTimers' = MapDelete(its, g)
    /\ activeGameStates' = activeGameStates
    /\ handlers' = handlers \cup
          {Handler(op, "closeGame.updateGameStatus", s, g,
                   UpdateStatusReq(g, "closed"))}

\* server.js:716-740, up to the await of updateGameStatus(gameId, "closed"),
\* for caller op on behalf of socket s, starting from timer maps its / tos
CloseGame(op, s, g, its, tos) ==
    /\ intervals' = IntervalsAfterClose(g)
    /\ gameTimers' = MapDelete(gameTimers, g)
    /\ timeouts' = TimeoutsAfterClose(g, its, tos)
    /\ inactivityTimers' = MapDelete(its, g)
    /\ activeGameStates' = MapDelete(activeGameStates, g)
    /\ handlers' = handlers \cup
          {Handler(op, "closeGame.updateGameStatus", s, g,
                   UpdateStatusReq(g, "closed"))}

----------------------------------------------------------------------------
(* exit-game *)

\* server.js:424-426
AllPlayersExited(game) ==
    \A i \in 1..Len(game.players) :
        game.players[i].id \in game.exitedPlayers \/ ~game.players[i].connected

\* server.js:707-713
removePlayerFromGame(game, playerId) ==
    [game EXCEPT !.players = SelectSeq(@, LAMBDA p : p.id # playerId)]

\* server.js:400-446.  Without a binding, or with the game not in memory, the
\* handler returns at once (no step).
ExitGame(s) ==
    /\ s \in sockets
    /\ s \in DOMAIN players
    /\ players[s].gameId \in DOMAIN activeGameStates
    /\ LET playerInfo == players[s]
           g == playerInfo.gameId
           game == [activeGameStates[g] EXCEPT
                      !.exitedPlayers = @ \cup {playerInfo.playerId}]
           its == InactivityAfterReset(g, inactivityTimers)
           tos == TimeoutsAfterReset(g, inactivityTimers, timeouts)
       IN IF AllPlayersExited(game)
          THEN /\ CanSuspend
               /\ CloseGame("exit", s, g, its, tos)
               /\ UNCHANGED << players, rooms >>
          ELSE /\ activeGameStates' =
                     MapSet(activeGameStates, g,
                            removePlayerFromGame(game, playerInfo.playerId))
               /\ inactivityTimers' = its
               /\ timeouts' = tos
               /\ players' = MapDelete(players, s)
               /\ rooms' = [rooms EXCEPT ![g] = @ \ {s}]
               /\ UNCHANGED << gameTimers, intervals, handlers >>
    /\ UNCHANGED << db, sockets, emitted, nextPlayerId, nActions, nJoined,
                    ticks, trip >>

\* server.js:742-756 and 444-446: closeGame has returned to exit-game
ExitGameClosed(h) ==
    /\ Ready(h, "exit", "closeGame.updateGameStatus")
    /\ handlers' = handlers \ {h}
    /\ players' = MapDelete(BindingsAfterClose(h.g, players), h.s)
    /\ rooms' = [rooms EXCEPT ![h.g] = RoomAfterClose(h.g) \ {h.s}]
    /\ UNCHANGED << activeGameStates, gameTimers, inactivityTimers, intervals,
                    timeouts, db, sockets, emitted, nextPlayerId, nActions,
                    nJoined, ticks, trip >>

----------------------------------------------------------------------------
(* inactivity timer *)

\* server.js:773-778: the 20-minute timeout fires and calls closeGame
InactivityTimeout(t) ==
    /\ t \in timeouts
    /\ CanSuspend
    /\ CloseGame("inactivity", "", t.g, inactivityTimers, timeouts \ {t})
    /\ UNCHANGED << players, db, rooms, sockets, emitted, nextPlayerId,
                    nActions, nJoined, ticks, trip >>

\* server.js:742-758: closeGame finishes
InactivityClosed(h) ==
    /\ Ready(h, "inactivity", "closeGame.updateGameStatus")
    /\ handlers' = handlers \ {h}
    /\ players' = BindingsAfterClose(h.g, players)
    /\ rooms' = [rooms EXCEPT ![h.g] = RoomAfterClose(h.g)]
    /\ UNCHANGED << activeGameStates, gameTimers, inactivityTimers, intervals,
                    timeouts, db, sockets, emitted, nextPlayerId, nActions,
                    nJoined, ticks, trip >>

----------------------------------------------------------------------------
(* disconnect *)

\* A failover that hands the game to the last of the connected players
AfterDisconnectToLast(game, playerId) ==
    LET idx == {i \in 1..Len(game.players) : game.players[i].id = playerId}
        first == CHOOSE i \in idx : \A j \in idx : i <= j
        marked == IF idx = {} THEN game
                  ELSE [game EXCEPT !.players[first].connected = FALSE]
        connectedPlayers == SelectSeq(marked.players, LAMBDA p : p.connected)
    IN IF marked.host = playerId /\ Len(connectedPlayers) > 0
       THEN [marked EXCEPT !.host = connectedPlayers[Len(connectedPlayers)].id]
       ELSE marked

\* server.js:631-642: mark the player disconnected, move the host
AfterDisconnect(game, playerId) ==
    LET idx == {i \in 1..Len(game.players) : game.players[i].id = playerId}
        first == CHOOSE i \in idx : \A j \in idx : i <= j
        marked == IF idx = {} THEN game
                  ELSE [game EXCEPT !.players[first].connected = FALSE]
        connectedPlayers == SelectSeq(marked.players, LAMBDA p : p.connected)
    IN IF marked.host = playerId /\ Len(connectedPlayers) > 0
       THEN [marked EXCEPT !.host = connectedPlayers[1].id]
       ELSE marked

\* server.js:623-653; socket.io has taken the socket out of its rooms
Disconnect(s) ==
    /\ s \in sockets
    /\ sockets' = sockets \ {s}
    /\ rooms' = [g \in GameIds |-> rooms[g] \ {s}]
    /\ IF s \in DOMAIN players
       THEN /\ players' = MapDelete(players, s)
            /\ IF players[s].gameId \in DOMAIN activeGameStates
               THEN activeGameStates' =
                       [activeGameStates EXCEPT ![players[s].gameId] =
                           AfterDisconnect(@, players[s].playerId)]
               ELSE UNCHANGED activeGameStates
       ELSE UNCHANGED << players, activeGameStates >>
    /\ UNCHANGED << gameTimers, inactivityTimers, intervals, timeouts, db,
                    handlers, emitted, nextPlayerId, nActions, nJoined,
                    ticks, trip >>

----------------------------------------------------------------------------
(* player-action *)

Max(a, b) == IF a >= b THEN a ELSE b
Min(a, b) == IF a <= b THEN a ELSE b

\* Index of the first player with the id (players.find), 0 when there is none
IndexOf(ps, id) ==
    LET idx == {i \in 1..Len(ps) : ps[i].id = id}
    IN IF idx = {} THEN 0 ELSE CHOOSE i \in idx : \A j \in idx : i <= j

SumAssets(p) == p.assets.gold + p.assets.water + p.assets.oil

\* One line of recentActions (the program builds an English sentence from the
\* same parts)
ActionText(actor, verb, amount, resource, tokens, target) ==
    [actor |-> actor, verb |-> verb, amount |-> amount, resource |-> resource,
     tokens |-> tokens, target |-> target]

NoText == ActionText("", "", 0, "", 0, "")

\* server.js:539
Price(game, resource, amount) == game.marketPrices[resource] * amount

\* A sale that pays more than the market price
SellPriceMarkedUp(price) == (price * 10) \div 8

\* server.js:558 Math.floor(price * 0.8)
SellPrice(price) == (price * 8) \div 10

\* A Buy that does not look at the tokens of the player
BuyOnCredit(game, i, resource, amount) ==
    LET price == Price(game, resource, amount)
        player == game.players[i]
    IN [game |-> [game EXCEPT !.players[i].tokens = @ - price,
                              !.players[i].assets[resource] = @ + amount],
        text |-> ActionText(player.name, "bought", amount, resource, price, "")]

\* server.js:542-552
Buy(game, i, resource, amount) ==
    LET price == Price(game, resource, amount)
        player == game.players[i]
    IN IF player.tokens >= price
       THEN [game |-> [game EXCEPT !.players[i].tokens = @ - price,
                                   !.players[i].assets[resource] = @ + amount],
             text |-> ActionText(player.name, "bought", amount, resource, price, "")]
       ELSE [game |-> game, text |-> NoText]

\* A Sell that does not look at what the player holds
SellUnchecked(game, i, resource, amount) ==
    LET sellPrice == SellPrice(Price(game, resource, amount))
        player == game.players[i]
    IN [game |-> [game EXCEPT !.players[i].tokens = @ + sellPrice,
                              !.players[i].assets[resource] = @ - amount],
        text |-> ActionText(player.name, "sold", amount, resource, sellPrice, "")]

\* server.js:554-565
Sell(game, i, resource, amount) ==
    LET sellPrice == SellPrice(Price(game, resource, amount))
        player == game.players[i]
    IN IF player.assets[resource] >= amount
       THEN [game |-> [game EXCEPT !.players[i].tokens = @ + sellPrice,
                                   !.players[i].assets[resource] = @ - amount],
             text |-> ActionText(player.name, "sold", amount, resource, sellPrice, "")]
       ELSE [game |-> game, text |-> NoText]

\* server.js:567-584
Burn(game, i, resource, amount) ==
    LET player == game.players[i]
    IN IF player.assets[resource] >= amount
       THEN [game |-> [game EXCEPT !.players[i].assets[resource] = @ - amount,
                                   !.marketChanges[resource] = @ + amount * BurnFactor],
             text |-> ActionText(player.name, "burned", amount, resource, 0, "")]
       ELSE [game |-> game, text |-> NoText]

\* A sabotage that leaves the total of the target as it was
SabotageTargetStaleTotal(game, t, resource, amount) ==
    [game EXCEPT !.players[t].assets[resource] = Max(0, @ - amount)]

\* server.js:592-601: the target loses the assets and its total is recomputed
SabotageTarget(game, t, resource, amount) ==
    LET hit == [game EXCEPT !.players[t].assets[resource] = Max(0, @ - amount)]
    IN [hit EXCEPT !.players[t].totalAssets = SumAssets(hit.players[t])]

\* server.js:586-604; targetPlayer 0 is a request without a target
Sabotage(game, i, resource, amount, targetPlayer) ==
    LET player == game.players[i]
        paid == [game EXCEPT !.players[i].tokens = @ - SabotageCost]
        t == IndexOf(paid.players, targetPlayer)
    IN IF player.tokens >= SabotageCost /\ targetPlayer # 0
       THEN IF t # 0 /\ paid.players[t].assets[resource] >= amount
            THEN [game |-> SabotageTarget(paid, t, resource, amount),
                  text |-> ActionText(player.name, "sabotaged", 0, resource, 0,
                                      paid.players[t].name)]
            ELSE [game |-> paid, text |-> NoText]
       ELSE [game |-> game, text |-> NoText]

\* server.js:541-605: the switch
ApplyAction(game, i, action, resource, amount, targetPlayer) ==
    CASE action = "Buy" -> Buy(game, i, resource, amount)
      [] action = "Sell" -> Sell(game, i, resource, amount)
      [] action = "Burn" -> Burn(game, i, resource, amount)
      [] action = "Sabotage" -> Sabotage(game, i, resource, amount, targetPlayer)
      [] OTHER -> [game |-> game, text |-> NoText]

\* A log that keeps every entry
LogActionKeepsAll(recentActions, text) ==
    IF text = NoText THEN recentActions ELSE <<text>> \o recentActions

\* server.js:611-615: unshift, then keep the first ten
LogAction(recentActions, text) ==
    IF text = NoText THEN recentActions
    ELSE SubSeq(<<text>> \o recentActions, 1,
                Min(Len(recentActions) + 1, MaxRecentActions))

\* server.js:527-617: the game after the action of the player at index i
ResolveAction(game, i, action, resource, amount, targetPlayer) ==
    LET done == ApplyAction(game, i, action, resource, amount, targetPlayer)
    IN [done.game EXCEPT
          !.players[i].totalAssets = SumAssets(done.game.players[i]),
          !.recentActions = LogAction(@, done.text)]

\* History of one Buy and the Sell that follows it (no program state): a
\* successful Buy may be picked to be followed; the next player-action of the
\* same player either is the Sell of the same resource and amount, which
\* closes the trip, or ends the following.
NoTrip ==
    [phase |-> "none", id |-> 0, resource |-> "", amount |-> 0, before |-> 0,
     buyPrice |-> 0, sellPrice |-> 0, after |-> 0]

TripAfter(game, i, action, resource, amount, targetPlayer, follow) ==
    LET done == ApplyAction(game, i, action, resource, amount, targetPlayer)
        player == game.players[i]
    IN IF trip.phase = "bought" /\ trip.id = player.id
       THEN IF /\ action = "Sell" /\ done.text # NoText
               /\ resource = trip.resource /\ amount = trip.amount
            THEN [trip EXCEPT !.phase = "sold",
                              !.sellPrice = game.marketPrices[resource],
                              !.after = done.game.players[i].tokens]
            ELSE NoTrip
       ELSE IF action = "Buy" /\ done.text # NoText /\ follow
            THEN [NoTrip EXCEPT !.phase = "bought", !.id = player.id,
                                !.resource = resource, !.amount = amount,
                                !.before = player.tokens,
                                !.buyPrice = game.marketPrices[resource]]
            ELSE trip

\* server.js:506-620.  Without a binding, or with the game absent or not
\* playing, the handler returns at once (no step).  The inactivity timer is
\* reset before the acting player is looked up.
PlayerActionWithin(s, action, resource, amount, targetPlayer, maxActions) ==
    /\ s \in sockets
    /\ s \in DOMAIN players
    /\ players[s].gameId \in DOMAIN activeGameStates
    /\ activeGameStates[players[s].gameId].status = "playing"
    /\ nActions < maxActions
    /\ nActions' = nActions + 1
    /\ LET g == players[s].gameId
           game == activeGameStates[g]
           i == IndexOf(game.players, players[s].playerId)
       IN /\ timeouts' = TimeoutsAfterReset(g, inactivityTimers, timeouts)
          /\ inactivityTimers' = InactivityAfterReset(g, inactivityTimers)
          /\ IF i = 0
             THEN UNCHANGED << activeGameStates, trip >>
             ELSE /\ activeGameStates' = [activeGameStates EXCEPT ![g] =
                        ResolveAction(game, i, action, resource, amount, targetPlayer)]
                  /\ \E follow \in BOOLEAN :
                        trip' = TripAfter(game, i, action, resource, amount,
                                          targetPlayer, follow)
    /\ UNCHANGED << players, gameTimers, intervals, db, rooms, sockets,
                    handlers, emitted, nextPlayerId, nJoined, ticks >>

PlayerAction(s, action, resource, amount, targetPlayer) ==
    PlayerActionWithin(s, action, resource, amount, targetPlayer, MaxActions)

----------------------------------------------------------------------------
(* update-market-prices *)

\* server.js:481-485: marketPrices.gold_price || game.marketPrices.gold
NewMarketPrices(old, marketPrices) ==
    [ gold |-> IF marketPrices.gold_price # 0 THEN marketPrices.gold_price ELSE old.gold,
      water |-> IF marketPrices.water_price # 0 THEN marketPrices.water_price ELSE old.water,
      oil |-> IF marketPrices.oil_price # 0 THEN marketPrices.oil_price ELSE old.oil ]

\* server.js:453-499.  A caller that is not the host, like one without a
\* binding or with the game absent or not playing, is ignored (no step).
UpdateMarketPrices(s, marketPrices) ==
    /\ s \in sockets
    /\ s \in DOMAIN players
    /\ players[s].gameId \in DOMAIN activeGameStates
    /\ activeGameStates[players[s].gameId].status = "playing"
    /\ IsHost(activeGameStates[players[s].gameId], players[s].playerId)
    /\ nActions < MaxActions
    /\ nActions' = nActions + 1
    /\ activeGameStates' = [activeGameStates EXCEPT
          ![players[s].gameId].marketPrices = NewMarketPrices(@, marketPrices)]
    /\ UNCHANGED << players, gameTimers, inactivityTimers, intervals, timeouts,
                    db, rooms, sockets, handlers, emitted, nextPlayerId,
                    nJoined, ticks, trip >>

----------------------------------------------------------------------------
(* Market simulator *)

\* server.js:889-900: every indicator moves by the fluctuation drawn for it
\* and is clamped to [-50, 50]
Fluctuate(game, fluctuation) ==
    [game EXCEPT !.marketChanges =
        [r \in Resources |-> Max(-MaxChange, Min(MaxChange, @[r] + fluctuation[r]))]]

\* server.js:886-906: the 5-second interval, over every playing game
MarketFluctuation(fluctuation) ==
    /\ \E g \in DOMAIN activeGameStates : activeGameStates[g].status = "playing"
    /\ nActions < MaxActions
    /\ nActions' = nActions + 1
    /\ activeGameStates' =
          [g \in DOMAIN activeGameStates |->
              IF activeGameStates[g].status = "playing"
              THEN Fluctuate(activeGameStates[g], fluctuation)
              ELSE activeGameStates[g]]
    /\ UNCHANGED << players, gameTimers, inactivityTimers, intervals, timeouts,
                    db, rooms, sockets, handlers, emitted, nextPlayerId,
                    nJoined, ticks, trip >>

----------------------------------------------------------------------------
(* finishGame *)

\* server.js:670-673
FinalScore(player, marketPrices) ==
    player.tokens + player.assets.gold * marketPrices.gold
                  + player.assets.water * marketPrices.water
                  + player.assets.oil * marketPrices.oil

\* server.js:669-679: each player with its finalScore
WithFinalScore(player, marketPrices) ==
    [ id |-> player.id, name |-> player.name, socketId |-> player.socketId,
      walletAddress |-> player.walletAddress, tokens |-> player.tokens,
      assets |-> player.assets, totalAssets |-> player.totalAssets,
      connected |-> player.connected,
      finalScore |-> FinalScore(player, marketPrices) ]

\* A comparator that also puts a before an equal b
SortsBeforeOrLevel(a, b) == b.finalScore - a.finalScore <= 0

\* The comparator of server.js:682: a sorts before b
SortsBefore(a, b) == b.finalScore - a.finalScore < 0

\* Array.prototype.sort is stable: x goes behind every element that does not
\* sort after it
InsertSorted(sorted, x) ==
    LET behind == {i \in 1..Len(sorted) : ~SortsBefore(x, sorted[i])}
        k == IF behind = {} THEN 0
             ELSE CHOOSE i \in behind : \A j \in behind : j <= i
    IN SubSeq(sorted, 1, k) \o <<x>> \o SubSeq(sorted, k + 1, Len(sorted))

RECURSIVE SortByScore(_)
SortByScore(seq) ==
    IF seq = <<>> THEN <<>>
    ELSE InsertSorted(SortByScore(SubSeq(seq, 1, Len(seq) - 1)), seq[Len(seq)])

\* server.js:657-689: finishGame up to its await
finishGame(game) ==
    LET finalPlayers ==
            SortByScore([i \in 1..Len(game.players) |->
                            WithFinalScore(game.players[i], game.marketPrices)])
    IN [game EXCEPT
          !.status = "finished",
          !.timerActive = FALSE,
          !.winner = IF finalPlayers = <<>> THEN <<>> ELSE <<finalPlayers[1]>>,
          !.finalScores = finalPlayers]

----------------------------------------------------------------------------
(* Round timer *)

\* server.js:842-876: one second less, or the round delay when time is up
Countdown(game) ==
    LET s1 == game.timeRemaining.seconds - 1
        newSeconds == IF s1 < 0 THEN 59 ELSE s1
        m1 == IF s1 < 0 THEN game.timeRemaining.minutes - 1
              ELSE game.timeRemaining.minutes
        newMinutes == IF m1 < 0 THEN 59 ELSE m1
        newHours == IF m1 < 0 THEN game.timeRemaining.hours - 1
                    ELSE game.timeRemaining.hours
    IN IF newHours < 0
       THEN [game EXCEPT !.roundDelay =
                [active |-> TRUE, timeRemaining |-> RoundDelaySeconds]]
       ELSE [game EXCEPT !.timeRemaining =
                [hours |-> newHours, minutes |-> newMinutes, seconds |-> newSeconds]]

\* server.js:802-812: the delay is over; archive the round and advance
AdvanceRound(game) ==
    [game EXCEPT
       !.roundDelay = NoDelay,
       !.actionHistory = IF game.recentActions # <<>>
                         THEN MapSet(@, game.currentRound, game.recentActions)
                         ELSE @,
       !.currentRound = @ + 1,
       !.recentActions = <<>>]

\* server.js:822-833: a new round, with the indicators drawn for it
NewRound(game, changes) ==
    [game EXCEPT !.timeRemaining = OneMinute, !.marketChanges = changes]

\* A liveness check that looks for the session only
TickIsStaleNoFlag(iv) == iv.g \notin DOMAIN activeGameStates

\* server.js:789-790: if (!game || !game.timerActive)
TickIsStale(iv) ==
    \/ iv.g \notin DOMAIN activeGameStates
    \/ ~activeGameStates[iv.g].timerActive

\* server.js:788-880: one tick of interval iv; changes are the indicators
\* drawn should a new round begin
Tick(iv, changes) ==
    /\ iv \in intervals
    /\ IF TickIsStale(iv)
       THEN \* server.js:790-794
            /\ intervals' = intervals \ {iv}
            /\ gameTimers' = MapDelete(gameTimers, iv.g)
            /\ UNCHANGED << activeGameStates, handlers, ticks, trip >>
       ELSE LET game == activeGameStates[iv.g] IN
            /\ ticks' = ticks + 1
            /\ trip' = IF game.roundDelay.active /\ game.roundDelay.timeRemaining - 1 <= 0
                       THEN NoTrip ELSE trip
            /\ IF game.roundDelay.active
               THEN IF game.roundDelay.timeRemaining - 1 <= 0
                    THEN IF AdvanceRound(game).currentRound > game.maxRounds
                         THEN \* server.js:814-816: suspended in finishGame
                              /\ CanSuspend
                              /\ activeGameStates' = [activeGameStates EXCEPT
                                    ![iv.g] = finishGame(AdvanceRound(game))]
                              /\ handlers' = handlers \cup
                                    {[Handler("tick", "finishGame.updateGameStatus",
                                              "", iv.g,
                                              UpdateStatusReq(iv.g, "finished"))
                                        EXCEPT !.timer = iv.id]}
                         ELSE /\ activeGameStates' = [activeGameStates EXCEPT
                                    ![iv.g] = NewRound(AdvanceRound(game), changes)]
                              /\ UNCHANGED handlers
                    ELSE /\ activeGameStates' = [activeGameStates EXCEPT
                               ![iv.g].roundDelay.timeRemaining = @ - 1]
                         /\ UNCHANGED handlers
               ELSE /\ activeGameStates' = [activeGameStates EXCEPT
                          ![iv.g] = Countdown(game)]
                    /\ UNCHANGED handlers
            /\ UNCHANGED << intervals, gameTimers >>
    /\ UNCHANGED << players, inactivityTimers, timeouts, db, rooms, sockets,
                    emitted, nextPlayerId, nActions, nJoined >>

\* server.js:817-819: finishGame has returned; the tick clears its interval
TickFinished(h) ==
    /\ Ready(h, "tick", "finishGame.updateGameStatus")
    /\ handlers' = handlers \ {h}
    /\ intervals' = {iv \in intervals : iv.id # h.timer}
    /\ gameTimers' = MapDelete(gameTimers, h.g)
    /\ UNCHANGED << activeGameStates, players, inactivityTimers, timeouts, db,
                    rooms, sockets, emitted, nextPlayerId, nActions, nJoined,
                    ticks, trip >>

----------------------------------------------------------------------------
(* Hourly cleanup *)

StaleMinutes == 30
AbandonedHours == 2
FinishedHours == 24

CleanupsInFlight == {h \in handlers : h.op = "cleanup"}

\* The handler of the cleanup, h, goes on as next and asks the store
CleanupAsks(h, next, at, req) ==
    (handlers \ {h}) \cup
        {[next EXCEPT !.at = at, !.pc = "db", !.req = req, !.reply = <<>>,
                      !.found = {}]}

\* server.js:909-912, part_000:331-336 and 237-248: the interval fires;
\* performFullCleanup begins with the select of cleanupStaleOpenGames(30)
Cleanup ==
    /\ CanSuspend
    /\ CleanupsInFlight = {}
    /\ handlers' = handlers \cup
          {Handler("cleanup", "stale.select", "", "G1", SelectStaleReq(StaleMinutes))}
    /\ UNCHANGED << activeGameStates, players, gameTimers, inactivityTimers,
                    intervals, timeouts, db, rooms, sockets, emitted,
                    nextPlayerId, nActions, nJoined, ticks, trip >>

\* part_000:250-264 and 284-295: with stale games found, delete them; with
\* none, cleanupStaleOpenGames returns 0 and cleanupAbandonedGames(2) selects
CleanupStaleSelected(h) ==
    /\ Ready(h, "cleanup", "stale.select")
    /\ handlers' =
          IF h.found # {}
          THEN CleanupAsks(h, [h EXCEPT !.staleGamesRemoved = Cardinality(h.found)],
                           "stale.delete", DeleteStaleReq(StaleMinutes))
          ELSE CleanupAsks(h, h, "abandoned.select", SelectAbandonedReq(AbandonedHours))
    /\ UNCHANGED << activeGameStates, players, gameTimers, inactivityTimers,
                    intervals, timeouts, db, rooms, sockets, emitted,
                    nextPlayerId, nActions, nJoined, ticks, trip >>

\* part_000:266-272 and 284-295: the delete is done; the count is that of the
\* select
CleanupStaleDeleted(h) ==
    /\ Ready(h, "cleanup", "stale.delete")
    /\ handlers' = CleanupAsks(h, h, "abandoned.select",
                               SelectAbandonedReq(AbandonedHours))
    /\ UNCHANGED << activeGameStates, players, gameTimers, inactivityTimers,
                    intervals, timeouts, db, rooms, sockets, emitted,
                    nextPlayerId, nActions, nJoined, ticks, trip >>

\* part_000:297-311 and 212-221: with abandoned games found, delete them;
\* with none, cleanupOldGames(24) deletes
CleanupAbandonedSelected(h) ==
    /\ Ready(h, "cleanup", "abandoned.select")
    /\ handlers' =
          IF h.found # {}
          THEN CleanupAsks(h, [h EXCEPT !.abandonedGamesRemoved = Cardinality(h.found)],
                           "abandoned.delete", DeleteAbandonedReq(AbandonedHours))
          ELSE CleanupAsks(h, h, "old.delete", DeleteOldReq(FinishedHours))
    /\ UNCHANGED << activeGameStates, players, gameTimers, inactivityTimers,
                    intervals, timeouts, db, rooms, sockets, emitted,
                    nextPlayerId, nActions, nJoined, ticks, trip >>

\* part_000:313-319 and 212-221
CleanupAbandonedDeleted(h) ==
    /\ Ready(h, "cleanup", "abandoned.delete")
    /\ handlers' = CleanupAsks(h, h, "old.delete", DeleteOldReq(FinishedHours))
    /\ UNCHANGED << activeGameStates, players, gameTimers, inactivityTimers,
                    intervals, timeouts, db, rooms, sockets, emitted,
                    nextPlayerId, nActions, nJoined, ticks, trip >>

\* part_000:223-229 and 344-355, server.js:914-920: performFullCleanup has
\* returned; memory is synchronised only when the first two sweeps removed
\* something
CleanupOldDeleted(h) ==
    /\ Ready(h, "cleanup", "old.delete")
    /\ handlers' =
          IF h.staleGamesRemoved > 0 \/ h.abandonedGamesRemoved > 0
          THEN CleanupAsks(h, h, "getPublicGames", PublicGamesReq)
          ELSE handlers \ {h}
    /\ UNCHANGED << activeGameStates, players, gameTimers, inactivityTimers,
                    intervals, timeouts, db, rooms, sockets, emitted,
                    nextPlayerId, nActions, nJoined, ticks, trip >>

\* server.js:921-938: every game in memory that getPublicGames did not list
\* leaves memory, and its timers are cleared
CleanupSynchronised(h) ==
    /\ Ready(h, "cleanup", "getPublicGames")
    /\ handlers' = handlers \ {h}
    /\ LET gone == (DOMAIN activeGameStates) \ h.found
       IN /\ activeGameStates' =
                [g \in (DOMAIN activeGameStates) \cap h.found |-> activeGameStates[g]]
          /\ intervals' = {iv \in intervals :
                              ~(iv.g \in gone /\ iv.g \in DOMAIN gameTimers
                                              /\ gameTimers[iv.g] = iv.id)}
          /\ gameTimers' = [g \in (DOMAIN gameTimers) \ gone |-> gameTimers[g]]
          /\ timeouts' = {to \in timeouts :
                              ~(to.g \in gone /\ to.g \in DOMAIN inactivityTimers
                                              /\ inactivityTimers[to.g] = to.id)}
          /\ inactivityTimers' =
                [g \in (DOMAIN inactivityTimers) \ gone |-> inactivityTimers[g]]
    /\ UNCHANGED << players, db, rooms, sockets, emitted, nextPlayerId,
                    nActions, nJoined, ticks, trip >>

\* server.js:945: the cleanup runs every 60 minutes
CleanupEveryMinutes == 60

\* An hour goes by, with no timer pending and no handler suspended
HourPasses ==
    /\ handlers = {}
    /\ timeouts = {}
    /\ intervals = {}
    /\ db' = [g \in DOMAIN db |->
                [db[g] EXCEPT
                    !.age = Min(@ + CleanupEveryMinutes, MaxMinutes),
                    !.idle = Min(@ + CleanupEveryMinutes, MaxMinutes)]]
    /\ UNCHANGED << activeGameStates, players, gameTimers, inactivityTimers,
                    intervals, timeouts, rooms, sockets, handlers, emitted,
                    nextPlayerId, nActions, nJoined, ticks, trip >>

\* Time goes by: every row is so many minutes older
ClockAdvance(minutes) ==
    /\ nActions < MaxActions
    /\ nActions' = nActions + 1
    /\ db' = [g \in DOMAIN db |->
                [db[g] EXCEPT !.age = @ + minutes, !.idle = @ + minutes]]
    /\ UNCHANGED << activeGameStates, players, gameTimers, inactivityTimers,
                    intervals, timeouts, rooms, sockets, handlers, emitted,
                    nextPlayerId, nJoined, ticks, trip >>

----------------------------------------------------------------------------

Init ==
    /\ activeGameStates = EmptyMap
    /\ players = EmptyMap
    /\ gameTimers = EmptyMap
    /\ inactivityTimers = EmptyMap
    /\ intervals = {}
    /\ timeouts = {}
    /\ db = EmptyMap
    /\ rooms = [g \in GameIds |-> {}]
    /\ sockets = SocketIds
    /\ handlers = {}
    /\ emitted = Emit("", "none")
    /\ nextPlayerId = 0
    /\ nActions = 0
    /\ nJoined = 0
    /\ ticks = 0
    /\ trip = NoTrip

----------------------------------------------------------------------------
(* Inputs drawn for the events *)

Amounts == {1, 2}
TradedResources == {"gold", "water"}
\* targetPlayer of a Sabotage: none, the players of the game, an unknown id
Targets == {0, 1, 2, 999}
\* marketPrices of update-market-prices; 0 stands for a price left out
PriceInputs ==
    { [gold_price |-> 50, water_price |-> 0, oil_price |-> 0],
      [gold_price |-> 0, water_price |-> 150, oil_price |-> 0] }
\* Math.floor(Math.random() * 10) - 5 lies in -5..4
Fluctuations == { [r \in Resources |-> -5], [r \in Resources |-> 4] }
\* Math.floor(Math.random() * 40) - 20 lies in -20..19
RoundChanges == { [r \in Resources |-> -20], [r \in Resources |-> 19] }

----------------------------------------------------------------------------
(* The lobby: one game, created by s1 and joined by s2 and s3.  Requests   *)
(* that start with an await arrive while no other handler is suspended;    *)
(* exit-game, disconnect and the store interleave freely.                  *)

Quiet == handlers = {}

\* The session of g is in memory and holds four players or more
Crowded(g) ==
    /\ g \in DOMAIN activeGameStates
    /\ Len(activeGameStates[g].players) >= MaxPlayers

\* join-game arrives while the lobby may still grow, or at a crowded session
LobbyNext ==
    \/ Quiet /\ CreateGame("s1", "G1", FALSE)
    \/ \E s \in {"s2", "s3"} :
          Quiet /\ (nJoined < MaxLobbyJoined \/ Crowded("G1")) /\ JoinGame(s, "G1")
    \/ Quiet /\ GetGameState("s2", "G1")
    \/ \E s \in SocketIds : Quiet /\ StartGame(s)
    \/ \E s \in SocketIds : ExitGame(s)
    \/ Disconnect("s1")
    \/ \E t \in timeouts : Quiet /\ InactivityTimeout(t)
    \/ \E h \in handlers : DbExec(h)
    \/ \E h \in handlers : CreateGameResume(h)
    \/ \E h \in handlers : JoinGameLoaded(h)
    \/ \E h \in handlers : AddPlayerToGameLoaded(h)
    \/ \E h \in handlers : AddPlayerToGameUpdated(h)
    \/ \E h \in handlers : GetGameStateLoaded(h)
    \/ \E h \in handlers : StartGameResume(h)
    \/ \E h \in handlers : ExitGameClosed(h)
    \/ \E h \in handlers : InactivityClosed(h)

SpecLobby == Init /\ [][LobbyNext]_vars

----------------------------------------------------------------------------
(* A game being played: s1 creates G1, s2 joins, s1 starts it, one request  *)
(* after the other; then the two players act on the market.                *)

Handlers ==
    \/ \E h \in handlers : DbExec(h)
    \/ \E h \in handlers : CreateGameResume(h)
    \/ \E h \in handlers : JoinGameLoaded(h)
    \/ \E h \in handlers : AddPlayerToGameLoaded(h)
    \/ \E h \in handlers : AddPlayerToGameUpdated(h)
    \/ \E h \in handlers : StartGameResume(h)

TwoPlayerSetup ==
    \/ Quiet /\ "G1" \notin DOMAIN db /\ CreateGame("s1", "G1", FALSE)
    \/ Quiet /\ nJoined = 0 /\ JoinGame("s2", "G1")
    \/ Quiet /\ nJoined = 1 /\ intervals = {} /\ StartGame("s1")
    \/ Handlers

PlayNext ==
    \/ TwoPlayerSetup
    \/ \E s \in {"s1", "s2"}, action \in {"Buy", "Sell", "Burn"},
          resource \in TradedResources, amount \in Amounts :
            PlayerAction(s, action, resource, amount, 0)
    \/ \E s \in {"s1", "s2"}, resource \in TradedResources, amount \in Amounts,
          targetPlayer \in Targets :
            PlayerAction(s, "Sabotage", resource, amount, targetPlayer)
    \/ \E s \in {"s1", "s2"}, marketPrices \in PriceInputs :
            UpdateMarketPrices(s, marketPrices)
    \/ \E fluctuation \in Fluctuations : MarketFluctuation(fluctuation)

SpecPlay == Init /\ [][PlayNext]_vars

----------------------------------------------------------------------------
(* The rounds of one game: s1 creates G1, s2 and s3 join, s1 starts it once; *)
(* the players trade gold during the first round; the round timer runs the  *)
(* game to its end.                                                         *)

ThreePlayerSetup ==
    \/ Quiet /\ "G1" \notin DOMAIN db /\ CreateGame("s1", "G1", FALSE)
    \/ Quiet /\ nJoined = 0 /\ JoinGame("s2", "G1")
    \/ Quiet /\ nJoined = 1 /\ JoinGame("s3", "G1")
    \/ Quiet /\ nJoined = 2 /\ intervals = {} /\ ticks = 0 /\ StartGame("s1")
    \/ Handlers

InFirstRound ==
    /\ "G1" \in DOMAIN activeGameStates
    /\ activeGameStates["G1"].currentRound = 1

RoundNext ==
    \/ ThreePlayerSetup
    \/ \E iv \in intervals, changes \in RoundChanges : Tick(iv, changes)
    \/ \E h \in handlers : TickFinished(h)
    \/ \E s \in SocketIds, action \in {"Buy", "Sell"} :
          InFirstRound /\ PlayerAction(s, action, "gold", 1, 0)
    \/ InFirstRound /\ UpdateMarketPrices("s1", [gold_price |-> 50, water_price |-> 0, oil_price |-> 0])

SpecRound == Init /\ [][RoundNext]_vars

----------------------------------------------------------------------------
(* Leaving and joining again: s1 creates G1; s2 and s3 join it; any of the   *)
(* three exits; the inactivity timer closes the game; s2 asks for its       *)
(* state.                                                                   *)

RejoinNext ==
    \/ Quiet /\ "G1" \notin DOMAIN db /\ CreateGame("s1", "G1", FALSE)
    \/ \E s \in {"s2", "s3"} : Quiet /\ JoinGame(s, "G1")
    \/ \E s \in SocketIds : ExitGame(s)
    \/ \E t \in timeouts : Quiet /\ InactivityTimeout(t)
    \/ Quiet /\ GetGameState("s2", "G1")
    \/ \E h \in handlers : DbExec(h)
    \/ \E h \in handlers : CreateGameResume(h)
    \/ \E h \in handlers : JoinGameLoaded(h)
    \/ \E h \in handlers : AddPlayerToGameLoaded(h)
    \/ \E h \in handlers : AddPlayerToGameUpdated(h)
    \/ \E h \in handlers : GetGameStateLoaded(h)
    \/ \E h \in handlers : ExitGameClosed(h)
    \/ \E h \in handlers : InactivityClosed(h)

SpecRejoin == Init /\ [][RejoinNext]_vars

----------------------------------------------------------------------------
(* Membership of a session *)

\* C1: every session in memory has at most four players, also after exits
\* and after the session is rebuilt from its row in the store.  (SpecRejoin
\* reaches a session of five: exit-game never writes the store, so the row
\* keeps the players that left, and addPlayerToGame appends to it without a
\* cap.)
C1_AtMostFourPlayers ==
    \A g \in DOMAIN activeGameStates :
        Len(activeGameStates[g].players) <= MaxPlayers

JoinErrors ==
    {"error: Game is full", "error: Game already in progress",
     "error: Game not found"}

\* The session join-game decides on must refuse the caller
MustRefuse(game) ==
    Len(game.players) >= MaxPlayers \/ game.status # "waiting"

\* C2: a join-game that finds the session with four or more players, or not
\* waiting, or in neither memory nor the store, answers the caller with an
\* error, adds no player to the session and binds no socket.
C2_JoinRejected ==
    [][ /\ \A s \in SocketIds, g \in GameIds :
             ( /\ JoinGame(s, g)
               /\ g \in DOMAIN activeGameStates
               /\ MustRefuse(activeGameStates[g]) )
             => /\ emitted'.to = s /\ emitted'.event \in JoinErrors
                /\ activeGameStates' = activeGameStates
                /\ players' = players
        /\ \A h \in handlers :
             ( /\ JoinGameLoaded(h)
               /\ (h.reply = <<>> \/ MustRefuse(Reconstruct(h.reply[1]))) )
             => /\ emitted'.to = h.s /\ emitted'.event \in JoinErrors
                /\ players' = players
                /\ IF h.reply = <<>>
                   THEN activeGameStates' = activeGameStates
                   ELSE /\ h.g \in DOMAIN activeGameStates'
                        /\ activeGameStates'[h.g].players = h.reply[1].players
      ]_vars

\* A full session in memory has just refused s2, which has no binding
C2_FullRefused ==
    /\ "G1" \in DOMAIN activeGameStates
    /\ Len(activeGameStates["G1"].players) = MaxPlayers
    /\ activeGameStates["G1"].status = "waiting"
    /\ emitted = Emit("s2", "error: Game is full")
    /\ "s2" \notin DOMAIN players

----------------------------------------------------------------------------
(* Host-only operations *)

\* The caller bound to socket s is not the host: its id is not game.host, it
\* is not the first of the players, and it joined without a wallet address
NotTheHost(s) ==
    /\ s \in DOMAIN players
    /\ players[s].gameId \in DOMAIN activeGameStates
    /\ LET game == activeGameStates[players[s].gameId]
           playerId == players[s].playerId
       IN /\ game.host # playerId
          /\ Len(game.players) > 0 => game.players[1].id # playerId
          /\ WalletOfPlayer(game, playerId) \in {NoWallet, Undefined}

\* C3: a caller that is not the host never makes start-game set the status
\* to playing, and never makes update-market-prices change the market
\* prices.  (The wallet criterion compares null with null: s2, joined without
\* a wallet, starts the game of s1, created without one.)
C3_NonHostRefused ==
    [][ \A s \in SocketIds :
          NotTheHost(s) =>
            LET g == players[s].gameId IN
            /\ StartGame(s) =>
                 ( /\ g \in DOMAIN activeGameStates'
                   /\ activeGameStates'[g].status = activeGameStates[g].status )
            /\ \A marketPrices \in PriceInputs :
                 UpdateMarketPrices(s, marketPrices) =>
                   activeGameStates'[g].marketPrices =
                      activeGameStates[g].marketPrices
      ]_vars

\* The caller bound to socket s is the host recorded in the session, and the
\* session has fewer than two players
HostAlone(s) ==
    /\ s \in DOMAIN players
    /\ players[s].gameId \in DOMAIN activeGameStates
    /\ activeGameStates[players[s].gameId].host = players[s].playerId
    /\ Len(activeGameStates[players[s].gameId].players) < 2

\* C4: start-game by the host of a session with fewer than two players
\* answers 'Need at least 2 players to start' and changes nothing: the
\* session, the round timers, the inactivity timers, the store and the
\* suspended handlers stay as they were.
C4_StartNeedsTwoPlayers ==
    [][ \A s \in SocketIds :
          (HostAlone(s) /\ StartGame(s)) =>
             /\ emitted' = Emit(s, "error: Need at least 2 players to start")
             /\ UNCHANGED << activeGameStates, gameTimers, inactivityTimers,
                             intervals, timeouts, db, handlers, players >>
      ]_vars

\* s1, alone in the waiting game it hosts, has just been refused
C4_HostAloneRefused ==
    /\ emitted = Emit("s1", "error: Need at least 2 players to start")
    /\ HostAlone("s1")
    /\ activeGameStates["G1"].status = "waiting"
    /\ ~activeGameStates["G1"].timerActive
    /\ intervals = {}

----------------------------------------------------------------------------
(* The store and the memory *)

\* C8: after an exit-game, once no handler waits for the store, the
\* current_players of the row equals the number of players of the session
\* in memory.  (exit-game removes the player from memory alone; the row keeps
\* its players and its count.)
C8_CountPersistedAfterExit ==
    [][ \A s \in SocketIds :
          ( /\ ExitGame(s)
            /\ handlers' = {}
            /\ players[s].gameId \in DOMAIN activeGameStates'
            /\ players[s].gameId \in DOMAIN db' )
          => db'[players[s].gameId].current_players =
                Len(activeGameStates'[players[s].gameId].players)
      ]_vars

----------------------------------------------------------------------------
(* Player actions *)

\* The Sabotage of socket s cannot succeed: the target id names no player of
\* the game, or the target holds fewer than amount units of the resource
SabotageFails(s, resource, amount, targetPlayer) ==
    /\ s \in DOMAIN players
    /\ players[s].gameId \in DOMAIN activeGameStates
    /\ LET game == activeGameStates[players[s].gameId]
           t == IndexOf(game.players, targetPlayer)
       IN /\ targetPlayer # 0
          /\ IndexOf(game.players, players[s].playerId) # 0
          /\ t = 0 \/ game.players[t].assets[resource] < amount

\* C5: a Sabotage whose target is unknown or holds too little of the
\* resource changes no player (tokens, assets, totalAssets) and logs
\* nothing.  (The 100 tokens are taken before the target is looked up.)
C5_FailedSabotageChangesNothing ==
    [][ \A s \in SocketIds, resource \in TradedResources, amount \in Amounts,
           targetPlayer \in Targets :
          ( /\ SabotageFails(s, resource, amount, targetPlayer)
            /\ PlayerAction(s, "Sabotage", resource, amount, targetPlayer) )
          => LET g == players[s].gameId IN
             /\ activeGameStates'[g].players = activeGameStates[g].players
             /\ activeGameStates'[g].recentActions =
                   activeGameStates[g].recentActions
      ]_vars

\* C6, as stated: a Buy followed by the Sell of the same resource and amount
\* in the same round never leaves the player with more tokens than before
\* the Buy, whatever happens in between.
C6_RoundTripNeverGains ==
    trip.phase = "sold" => trip.after <= trip.before

\* C6, amended: the same, provided the market price of the resource at the
\* Sell is not above its price at the Buy.
C6_RoundTripAtNoHigherPrice ==
    (trip.phase = "sold" /\ trip.sellPrice <= trip.buyPrice)
        => trip.after <= trip.before

\* A round trip closed after the host lowered the price of the resource
C6_SoldCheaper ==
    /\ trip.phase = "sold"
    /\ trip.sellPrice < trip.buyPrice
    /\ trip.after < trip.before

\* C7: every player of every session has totalAssets equal to the sum of
\* its gold, water and oil.
C7_TotalAssetsIsSum ==
    \A g \in DOMAIN activeGameStates :
        \A i \in 1..Len(activeGameStates[g].players) :
            activeGameStates[g].players[i].totalAssets =
                SumAssets(activeGameStates[g].players[i])

\* The last action was a Sabotage of s1 that hit s2, who keeps some assets
C7_SabotagedKeepsSome ==
    /\ "G1" \in DOMAIN activeGameStates
    /\ LET game == activeGameStates["G1"] IN
       /\ game.recentActions # <<>>
       /\ game.recentActions[1].verb = "sabotaged"
       /\ game.recentActions[1].actor = "s1"
       /\ game.recentActions[1].target = "s2"
       /\ \E i \in 1..Len(game.players) :
             game.players[i].name = "s2" /\ game.players[i].totalAssets > 0

----------------------------------------------------------------------------
(* Rounds *)

\* C9: a game started once with one minute on the clock is in the round
\* delay, ten seconds to go, after exactly 60 ticks, and after exactly 10
\* more it is in the next round with one minute on the clock, no delay and
\* no recent actions.  (The sixtieth tick brings the clock to 0:00:00; the
\* delay begins with the tick after it.)
C9_DelayAfterSixtyTicks ==
    "G1" \in DOMAIN activeGameStates =>
        LET game == activeGameStates["G1"] IN
        /\ ticks = 60 =>
              /\ game.roundDelay.active
              /\ game.roundDelay.timeRemaining = RoundDelaySeconds
        /\ ticks = 70 =>
              /\ game.currentRound = 2
              /\ game.timeRemaining = OneMinute
              /\ ~game.roundDelay.active
              /\ game.recentActions = <<>>

\* The score of server.js:670-673, spelled out
Score(p, prices) ==
    p.tokens + p.assets.gold * prices.gold + p.assets.water * prices.water
             + p.assets.oil * prices.oil

\* finalScores is the players in descending order of score, players of equal
\* score in the order they joined; pos gives the place in players of each
\* entry
SortedStable(game) ==
    LET n == Len(game.players)
        pos == [i \in 1..Len(game.finalScores) |->
                    IndexOf(game.players, game.finalScores[i].id)]
    IN /\ Len(game.finalScores) = n
       /\ {pos[i] : i \in 1..n} = 1..n
       /\ \A i \in 1..n :
             /\ game.finalScores[i].finalScore =
                   Score(game.players[pos[i]], game.marketPrices)
             /\ game.finalScores[i].tokens = game.players[pos[i]].tokens
             /\ game.finalScores[i].assets = game.players[pos[i]].assets
       /\ \A i, j \in 1..n :
             i < j =>
                \/ game.finalScores[i].finalScore > game.finalScores[j].finalScore
                \/ /\ game.finalScores[i].finalScore = game.finalScores[j].finalScore
                   /\ pos[i] < pos[j]

\* The winner is the first, in join order, of the players of highest score
WinnerIsFirstBest(game) ==
    /\ game.winner # <<>>
    /\ \E k \in 1..Len(game.players) :
          /\ game.winner[1].id = game.players[k].id
          /\ game.winner[1].finalScore = Score(game.players[k], game.marketPrices)
          /\ \A j \in 1..Len(game.players) :
                /\ Score(game.players[j], game.marketPrices)
                      <= Score(game.players[k], game.marketPrices)
                /\ j < k => Score(game.players[j], game.marketPrices)
                               < Score(game.players[k], game.marketPrices)

\* C10: once the delay after the last round is over the game is finished
\* and no further round begins; its timer is off, and is cleared as soon as
\* finishGame has returned; the winner is the first in join order of the
\* players of highest score (tokens plus assets at the market prices), and
\* finalScores is the players by descending score, join order kept among
\* equals.
C10_FinishedAfterLastRound ==
    \A g \in DOMAIN activeGameStates :
        LET game == activeGameStates[g] IN
        /\ game.currentRound <= game.maxRounds + 1
        /\ game.currentRound > game.maxRounds =>
              /\ game.status = "finished"
              /\ ~game.timerActive
              /\ ~game.roundDelay.active
              /\ WinnerIsFirstBest(game)
              /\ SortedStable(game)
              /\ (\A h \in handlers : h.g # g) =>
                    /\ g \notin DOMAIN gameTimers
                    /\ \A iv \in intervals : iv.g # g
        /\ game.currentRound <= game.maxRounds => game.status # "finished"

\* G1 has finished and its timer is cleared; s1 traded at a loss, s2 and s3
\* are level on top: s2, who joined first, has won, and s1 comes last
C10_FinishedWithTie ==
    /\ "G1" \in DOMAIN activeGameStates
    /\ handlers = {}
    /\ intervals = {}
    /\ LET game == activeGameStates["G1"] IN
       /\ game.status = "finished"
       /\ game.currentRound = MaxRounds + 1
       /\ Len(game.finalScores) = 3
       /\ game.winner # <<>>
       /\ game.winner[1].name = "s2"
       /\ game.finalScores[2].name = "s3"
       /\ game.finalScores[2].finalScore = game.finalScores[1].finalScore
       /\ game.finalScores[3].name = "s1"
       /\ game.finalScores[3].finalScore < game.finalScores[1].finalScore

----------------------------------------------------------------------------
(* Starting again: s1 creates G1, s2 joins, and s1 sends start-game whenever *)
(* no handler is suspended, also while the game is playing or finished; the *)
(* round timer runs.  start-game stops arriving once the game is            *)
(* MaxExtraRounds rounds past its last round.                               *)

RestartNext ==
    \/ Quiet /\ "G1" \notin DOMAIN db /\ CreateGame("s1", "G1", FALSE)
    \/ Quiet /\ nJoined = 0 /\ JoinGame("s2", "G1")
    \/ /\ Quiet /\ nJoined = 1
       /\ "G1" \in DOMAIN activeGameStates
       /\ activeGameStates["G1"].currentRound < MaxRounds + 1 + MaxExtraRounds
       /\ StartGame("s1")
    \/ Handlers
    \/ \E iv \in intervals, changes \in RoundChanges : Tick(iv, changes)
    \/ \E h \in handlers : TickFinished(h)

SpecRestart == Init /\ [][RestartNext]_vars

\* C11: in every session currentRound is at most maxRounds + 1, whatever
\* start-game requests and timer ticks arrive.  (start-game does not look at
\* the status: sent to a finished game it sets it playing again and starts a
\* timer, whose next round delay ends in round maxRounds + 2.)
C11_RoundAtMostMaxPlusOne ==
    \A g \in DOMAIN activeGameStates :
        activeGameStates[g].currentRound <= activeGameStates[g].maxRounds + 1

----------------------------------------------------------------------------
(* Host failover: s1 creates G1, s2 and s3 join, s1 may start it; the        *)
(* sockets disconnect in any order.                                         *)

FailoverNext ==
    \/ ThreePlayerSetup
    \/ \E s \in SocketIds : Disconnect(s)

SpecFailover == Init /\ [][FailoverNext]_vars

\* The players of the game that are connected, by their place in players
ConnectedAt(game) == {i \in 1..Len(game.players) : game.players[i].connected}

\* C12: when the socket of the player recorded as host disconnects, host
\* becomes the first player in join order that is still connected, and
\* keeps its value if nobody is; the disconnect of any other player leaves
\* host as it was.
C12_HostFailover ==
    [][ \A s \in SocketIds :
          ( /\ Disconnect(s)
            /\ s \in DOMAIN players
            /\ players[s].gameId \in DOMAIN activeGameStates )
          => LET g == players[s].gameId
                 before == activeGameStates[g]
                 after == activeGameStates'[g]
             IN IF before.host = players[s].playerId /\ ConnectedAt(after) # {}
                THEN \E i \in ConnectedAt(after) :
                        /\ \A j \in ConnectedAt(after) : i <= j
                        /\ after.host = after.players[i].id
                ELSE after.host = before.host
      ]_vars

\* s1, the host, then s2, then s3 have disconnected: host went from s1 to
\* s2 to s3 and stays with s3, whose id is its wallet address
C12_AllGoneInJoinOrder ==
    /\ "G1" \in DOMAIN activeGameStates
    /\ sockets = {}
    /\ Len(activeGameStates["G1"].players) = 3
    /\ ConnectedAt(activeGameStates["G1"]) = {}
    /\ activeGameStates["G1"].host = WalletOf("s3")

----------------------------------------------------------------------------
(* The host of a session *)

\* The players of the game that have not exited, by their place in players
StayingAt(game) ==
    {i \in 1..Len(game.players) : game.players[i].id \notin game.exitedPlayers}

\* C13: in a session in memory in which some player has not exited, host is
\* the id of a player that is in players and has not exited.  (exit-game
\* takes the host out of players and leaves host as it was.)
C13_HostHasNotExited ==
    \A g \in DOMAIN activeGameStates :
        LET game == activeGameStates[g] IN
        StayingAt(game) # {} =>
            \E i \in StayingAt(game) : game.players[i].id = game.host

----------------------------------------------------------------------------
(* The hourly cleanup: s1 creates G1, public or private; s2 may join; s1    *)
(* may start it and the round timer may run it to its end; players exit;   *)
(* the inactivity timer closes it; s2 asks for its state.  Minutes go by    *)
(* while no timer is pending, and the cleanup runs while no round timer is *)
(* running.  A game is started before the first step of the clock.        *)

TimeSteps == {1, 29, 91, 1411}

Cleaning ==
    \/ \E h \in handlers : CleanupStaleSelected(h)
    \/ \E h \in handlers : CleanupStaleDeleted(h)
    \/ \E h \in handlers : CleanupAbandonedSelected(h)
    \/ \E h \in handlers : CleanupAbandonedDeleted(h)
    \/ \E h \in handlers : CleanupOldDeleted(h)
    \/ \E h \in handlers : CleanupSynchronised(h)

NoTimerPending == timeouts = {} /\ intervals = {}

SweepNext ==
    \/ \E isPrivate \in BOOLEAN :
          Quiet /\ "G1" \notin DOMAIN db /\ nextPlayerId = 0
                /\ CreateGame("s1", "G1", isPrivate)
    \/ Quiet /\ nJoined = 0 /\ JoinGame("s2", "G1")
    \/ /\ Quiet /\ nJoined = 1 /\ intervals = {} /\ ticks = 0 /\ nActions = 0
       /\ StartGame("s1")
    \/ Handlers
    \/ \E iv \in intervals, changes \in RoundChanges : Tick(iv, changes)
    \/ \E h \in handlers : TickFinished(h)
    \/ \E s \in {"s1", "s2"} : Quiet /\ (intervals = {} \/ ticks = 0) /\ ExitGame(s)
    \/ \E h \in handlers : ExitGameClosed(h)
    \/ \E t \in timeouts : Quiet /\ InactivityTimeout(t)
    \/ \E h \in handlers : InactivityClosed(h)
    \/ Quiet /\ "G1" \notin DOMAIN activeGameStates /\ GetGameState("s2", "G1")
    \/ \E h \in handlers : GetGameStateLoaded(h)
    \/ \E minutes \in TimeSteps : Quiet /\ NoTimerPending /\ ClockAdvance(minutes)
    \/ Quiet /\ intervals = {} /\ Cleanup
    \/ Cleaning

SpecSweep == Init /\ [][SweepNext]_vars

----------------------------------------------------------------------------
(* The sweeps of the cleanup *)

\* C14: the stale-open sweep deletes a record if and only if its status is
\* waiting, its visibility is public and it was last updated more than 30
\* minutes ago: a record of 31 minutes goes, one of 29 or of exactly 30
\* minutes stays, and no playing, finished or private record ever goes.
C14_StaleSweepDeletesExactly ==
    [][ \A h \in handlers :
          (h.op = "cleanup" /\ h.at = "stale.delete" /\ DbExec(h)) =>
              \A g \in DOMAIN db :
                  (g \notin DOMAIN db') <=>
                      /\ db[g].status = "waiting"
                      /\ db[g].visibility = "public"
                      /\ db[g].idle > 30 ]_vars

\* The sweep has just deleted the record of G1
C14_StaleRecordDeleted ==
    \E h \in handlers :
        /\ h.op = "cleanup" /\ h.at = "stale.delete" /\ h.pc = "run"
        /\ h.staleGamesRemoved = 1
        /\ "G1" \notin DOMAIN db

\* C15: when a cleanup batch has completed (the three sweeps and the
\* synchronising of memory), every session in memory has a row in the store.
\* (SpecSweep reaches a session without a row: the sweep of finished games
\* deletes the row, and memory is synchronised only when one of the other two
\* sweeps removed something.)
C15_NoSessionOutlivesRecord ==
    [][ (CleanupsInFlight # {} /\ CleanupsInFlight' = {}) =>
            \A g \in DOMAIN activeGameStates' : g \in DOMAIN db' ]_vars

----------------------------------------------------------------------------
(* Leaving twice *)

\* C16: exit-game is idempotent per player.  Right after a connection has
\* sent exit-game, and right after the closeGame that request awaited has
\* returned, a second exit-game of the same connection finds no binding, or
\* no session for its binding, and returns before it changes anything or
\* emits anything.
C16_SecondExitReturnsAtOnce ==
    [][ \A s \in SocketIds :
          (ExitGame(s) \/ \E h \in handlers : h.s = s /\ ExitGameClosed(h)) =>
              \/ s \notin DOMAIN players'
              \/ players'[s].gameId \notin DOMAIN activeGameStates' ]_vars

\* The last player has sent exit-game and closeGame is awaiting the store:
\* the binding is still there, the session is not
C16_ExitedWhileClosing ==
    \E h \in handlers :
        /\ h.op = "exit"
        /\ h.s \in DOMAIN players
        /\ players[h.s].gameId = h.g
        /\ h.g \notin DOMAIN activeGameStates

----------------------------------------------------------------------------
(* Failed writes *)

\* C17: when the write of create-game or of join-game fails (the store
\* answers null), the handler still goes on in memory: create-game installs
\* the session and the binding and emits game-created; join-game has the
\* binding and emits game-joined.  (SpecLobby reaches a create-game whose
\* insert is refused and that emits an error and installs nothing.)
C17_WriteFailureStillProceeds ==
    [][ \A h \in handlers :
          /\ (h.reply = <<>> /\ CreateGameResume(h)) =>
                /\ h.g \in DOMAIN activeGameStates'
                /\ activeGameStates'[h.g] = h.game
                /\ h.s \in DOMAIN players'
                /\ players'[h.s].gameId = h.g
                /\ emitted' = Emit(h.s, "game-created")
          /\ (h.reply = <<>> /\ (AddPlayerToGameLoaded(h) \/ AddPlayerToGameUpdated(h))) =>
                /\ h.s \in DOMAIN players'
                /\ players'[h.s].gameId = h.g
                /\ emitted' = Emit(h.s, "game-joined") ]_vars

----------------------------------------------------------------------------
(* Closing a game *)

\* C18: when closeGame has completed, the row of the game carries the
\* terminal status closed: it is no longer waiting or playing.  (SpecRejoin
\* reaches a closed game whose row is still waiting: the CHECK on status
\* refuses 'closed', and closeGame ignores the answer.)
C18_ClosedIsPersisted ==
    [][ \A h \in handlers :
          (ExitGameClosed(h) \/ InactivityClosed(h)) =>
              /\ h.g \in DOMAIN db'
              /\ db'[h.g].status = "closed" ]_vars

\* A game closed while a player is joining: s1 creates G1, s2 joins, players
\* exit; s3 sends join-game at any moment, also while closeGame awaits the
\* store; the inactivity timer fires at any moment.
CloseNext ==
    \/ Quiet /\ "G1" \notin DOMAIN db /\ nextPlayerId = 0 /\ CreateGame("s1", "G1", FALSE)
    \/ Quiet /\ nJoined = 0 /\ JoinGame("s2", "G1")
    \/ nJoined = 1 /\ JoinGame("s3", "G1")
    \/ \E s \in SocketIds : ExitGame(s)
    \/ \E t \in timeouts : InactivityTimeout(t)
    \/ \E h \in handlers : DbExec(h)
    \/ \E h \in handlers : CreateGameResume(h)
    \/ \E h \in handlers : JoinGameLoaded(h)
    \/ \E h \in handlers : AddPlayerToGameLoaded(h)
    \/ \E h \in handlers : AddPlayerToGameUpdated(h)
    \/ \E h \in handlers : ExitGameClosed(h)
    \/ \E h \in handlers : InactivityClosed(h)

SpecClose == Init /\ [][CloseNext]_vars

\* C19: when closeGame has completed for a game, the session is not in
\* memory, the game has no round-timer handle and no inactivity-timer handle,
\* and no socket is bound to the game.  (SpecClose reaches a completed close
\* that leaves a binding: join-game binds the socket before it awaits the
\* store and joins the room only after, and closeGame unbinds only the
\* sockets of the room.)
C19_NothingLeftAfterClose ==
    [][ \A h \in handlers :
          (ExitGameClosed(h) \/ InactivityClosed(h)) =>
              /\ h.g \notin DOMAIN activeGameStates'
              /\ h.g \notin DOMAIN gameTimers'
              /\ h.g \notin DOMAIN inactivityTimers'
              /\ \A s \in DOMAIN players' : players'[s].gameId # h.g ]_vars

----------------------------------------------------------------------------
(* Sessions left alone: s1 creates G1, public or private; s2 and s3 may     *)
(* join; players may exit; then no client sends anything.  The store        *)
(* answers, timers fire, hours go by and the hourly cleanup runs.           *)

AloneClients ==
    \/ \E isPrivate \in BOOLEAN :
          Quiet /\ "G1" \notin DOMAIN db /\ nextPlayerId = 0
                /\ CreateGame("s1", "G1", isPrivate)
    \/ Quiet /\ nJoined = 0 /\ JoinGame("s2", "G1")
    \/ Quiet /\ nJoined = 1 /\ JoinGame("s3", "G1")
    \/ \E s \in SocketIds : Quiet /\ ExitGame(s)

AloneAnswers ==
    \/ \E h \in handlers : DbExec(h)
    \/ \E h \in handlers : CreateGameResume(h)
    \/ \E h \in handlers : JoinGameLoaded(h)
    \/ \E h \in handlers : AddPlayerToGameLoaded(h)
    \/ \E h \in handlers : AddPlayerToGameUpdated(h)
    \/ \E h \in handlers : ExitGameClosed(h)
    \/ \E h \in handlers : InactivityClosed(h)
    \/ Cleaning

AloneTimeout == \E t \in timeouts : InactivityTimeout(t)

AloneCleanup == Quiet /\ Cleanup

AloneNext ==
    \/ AloneClients
    \/ AloneAnswers
    \/ AloneTimeout
    \/ AloneCleanup
    \/ HourPasses

\* The store answers, timers fire and the cleanup runs; between two runs of
\* the cleanup an hour goes by, again and again
SpecAlone ==
    /\ Init /\ [][AloneNext]_vars
    /\ WF_vars(AloneAnswers)
    /\ WF_vars(AloneTimeout)
    /\ WF_vars(AloneCleanup)
    /\ SF_vars(HourPasses)

\* C20: every session in memory eventually leaves memory, by the inactivity
\* timer or by the synchronising of the hourly cleanup, also when no client
\* sends anything more.  (SpecAlone has a behaviour in which a private game
\* of two players stays in memory for ever: create-game and join-game start
\* no inactivity timer, and no sweep of the cleanup matches its row.)
C20_EverySessionLeaves ==
    \A g \in GameIds :
        (g \in DOMAIN activeGameStates) ~> (g \notin DOMAIN activeGameStates)

----------------------------------------------------------------------------
(* Players short of tokens: s1 creates G1, s2 joins, s1 starts it and sets  *)
(* a high price of gold; then the two players act.                         *)

HighPrices == {600, 950}

BrokeNext ==
    \/ TwoPlayerSetup
    \/ \E price \in HighPrices :
          nActions = 0 /\ UpdateMarketPrices("s1", [gold_price |-> price,
                                                    water_price |-> 0,
                                                    oil_price |-> 0])
    \/ \E s \in {"s1", "s2"}, action \in {"Buy", "Sell", "Burn"},
          resource \in TradedResources, amount \in Amounts :
            PlayerAction(s, action, resource, amount, 0)
    \/ \E s \in {"s1", "s2"}, amount \in Amounts, targetPlayer \in Targets :
            PlayerAction(s, "Sabotage", "gold", amount, targetPlayer)

SpecBroke == Init /\ [][BrokeNext]_vars

\* C21: a player-action changes nothing of the session when the acting
\* player is not in the session or when the precondition of its Buy (tokens
\* >= price x amount), Sell or Burn (assets[resource] >= amount) is unmet:
\* no tokens, assets, totalAssets, market price, market change or entry of
\* recentActions changes.  (Without a binding, or with the session absent or
\* not playing, the handler returns at once.)
C21_UnmetActionChangesNothing ==
    [][ \A s \in {"s1", "s2"}, action \in {"Buy", "Sell", "Burn"},
           resource \in TradedResources, amount \in Amounts :
          PlayerAction(s, action, resource, amount, 0) =>
             LET game == activeGameStates[players[s].gameId]
                 i == IndexOf(game.players, players[s].playerId)
                 unmet ==
                    \/ i = 0
                    \/ /\ i # 0 /\ action = "Buy"
                       /\ game.players[i].tokens < game.marketPrices[resource] * amount
                    \/ /\ i # 0 /\ action \in {"Sell", "Burn"}
                       /\ game.players[i].assets[resource] < amount
             IN unmet => activeGameStates' = activeGameStates ]_vars

\* Gold costs 600; s1 has bought one; of the two actions that followed,
\* none has changed anything (a Buy of gold for tokens s1 has not is among
\* what can follow)
C21_ActedInVain ==
    /\ nActions = 3
    /\ "G1" \in DOMAIN activeGameStates
    /\ LET game == activeGameStates["G1"]
       IN /\ game.marketPrices.gold = 600
          /\ Len(game.players) = 2
          /\ game.players[1].tokens = 400
          /\ game.players[1].assets.gold = 1
          /\ game.players[2].tokens = StartTokens
          /\ Len(game.recentActions) = 1

----------------------------------------------------------------------------
(* The round timer *)

\* C22: finished is terminal.  No step takes a session that is finished to
\* another status, changes its currentRound or starts a round timer for it.
\* (SpecRestart reaches a finished game that the host starts again:
\* start-game does not look at the status.)
C22_FinishedIsTerminal ==
    [][ \A g \in GameIds :
          ( /\ g \in DOMAIN activeGameStates
            /\ activeGameStates[g].status = "finished"
            /\ g \in DOMAIN activeGameStates' ) =>
              /\ activeGameStates'[g].status = "finished"
              /\ activeGameStates'[g].currentRound = activeGameStates[g].currentRound
              /\ {iv \in intervals' : iv.g = g} \subseteq intervals ]_vars

\* A game started twice: s1 creates G1, s2 joins, s1 sends start-game, and
\* sends it again while the first one awaits the store or after; the round
\* timers tick through the first round.
TwiceNext ==
    \/ Quiet /\ "G1" \notin DOMAIN db /\ CreateGame("s1", "G1", FALSE)
    \/ Quiet /\ nJoined = 0 /\ JoinGame("s2", "G1")
    \/ nJoined = 1 /\ StartGameWithin("s1", MaxRestartIntervals)
    \/ Handlers
    \/ \E iv \in intervals, changes \in RoundChanges :
          InFirstRound /\ Tick(iv, changes)

SpecTwice == Init /\ [][TwiceNext]_vars

\* C23: a session whose timer is active has at most one round-timer interval.
\* (SpecTwice reaches a playing game with two: start-game does not look at
\* the status, and startGameTimer sets a new interval without clearing the
\* one the game has.)
C23_OneRoundTimer ==
    \A g \in DOMAIN activeGameStates :
        activeGameStates[g].timerActive =>
            Cardinality({iv \in intervals : iv.g = g}) <= 1

\* C24: a tick of a round timer whose session is no longer in memory, or
\* whose session has timerActive false, changes no session, no binding and
\* no row, emits nothing, suspends nothing, and clears its own interval, so
\* that it does not fire again.
C24_StaleTickOnlyCancels ==
    [][ \A iv \in intervals, changes \in RoundChanges :
          ( /\ Tick(iv, changes)
            /\ \/ iv.g \notin DOMAIN activeGameStates
               \/ ~activeGameStates[iv.g].timerActive ) =>
              /\ activeGameStates' = activeGameStates
              /\ players' = players
              /\ db' = db
              /\ emitted' = emitted
              /\ handlers' = handlers
              /\ iv \notin intervals' ]_vars

\* finishGame is awaiting the store, and the interval that called it is
\* gone already: a tick found timerActive false and cleared it
C24_ClearedWhileFinishing ==
    \E h \in handlers :
        /\ h.op = "tick"
        /\ "G1" \in DOMAIN activeGameStates
        /\ ~activeGameStates["G1"].timerActive
        /\ \A iv \in intervals : iv.id # h.timer

----------------------------------------------------------------------------
(* The log of a round: s1 creates G1, s2 joins, s1 starts it; then s1 buys  *)
(* and sells one gold, again and again.                                    *)

LogNext ==
    \/ TwoPlayerSetup
    \/ \E action \in {"Buy", "Sell"} :
          PlayerActionWithin("s1", action, "gold", 1, 0, MaxLoggedActions)

SpecLog == Init /\ [][LogNext]_vars

\* C25: recentActions has at most 10 entries, the most recent first: an
\* action that succeeds puts its description in front of the entries there
\* were, of which the oldest goes when there were 10; an action that fails
\* leaves the list alone.
C25_RecentActionsNewestFirst ==
    [][ \A action \in {"Buy", "Sell"} :
          PlayerActionWithin("s1", action, "gold", 1, 0, MaxLoggedActions) =>
             LET old == activeGameStates["G1"]
                 new == activeGameStates'["G1"]
                 kept == Min(Len(old.recentActions), 9)
             IN /\ Len(new.recentActions) <= 10
                /\ IF new.players = old.players
                   THEN new.recentActions = old.recentActions
                   ELSE /\ Len(new.recentActions) = kept + 1
                        /\ new.recentActions[1].actor = "s1"
                        /\ new.recentActions[1].verb =
                              (IF action = "Buy" THEN "bought" ELSE "sold")
                        /\ \A k \in 1..kept :
                              new.recentActions[k + 1] = old.recentActions[k] ]_vars

\* s1 has bought six times and sold five times: eleven actions succeeded
\* and the list holds ten
C25_EleventhDropped ==
    /\ "G1" \in DOMAIN activeGameStates
    /\ activeGameStates["G1"].players[1].assets.gold = 1
    /\ activeGameStates["G1"].players[1].tokens = 800
    /\ Len(activeGameStates["G1"].recentActions) = 10

\* C26: when the delay between two rounds expires, the round that is over is
\* archived: actionHistory of that round is defined and equals the
\* recentActions of that moment, also when they are empty; and no tick
\* changes or removes what is archived for another round.  (SpecRound
\* reaches the end of a round without actions, which leaves actionHistory
\* without an entry for the round.)
C26_RoundArchived ==
    [][ \A iv \in intervals, changes \in RoundChanges :
          ( /\ Tick(iv, changes)
            /\ ~TickIsStale(iv)
            /\ iv.g \in DOMAIN activeGameStates' ) =>
             LET old == activeGameStates[iv.g]
                 new == activeGameStates'[iv.g]
                 r == old.currentRound
                 expiry == /\ old.roundDelay.active
                           /\ old.roundDelay.timeRemaining - 1 <= 0
             IN /\ expiry => /\ r \in DOMAIN new.actionHistory
                             /\ new.actionHistory[r] = old.recentActions
                /\ \A k \in DOMAIN old.actionHistory :
                      (expiry /\ k = r) \/
                         /\ k \in DOMAIN new.actionHistory
                         /\ new.actionHistory[k] = old.actionHistory[k] ]_vars

----------------------------------------------------------------------------
(* A game left idle: s1 creates G1, s2 joins, s1 starts it; the players may  *)
(* buy gold a few times and exit; s2 may ask for the state of a game that   *)
(* is not in memory.  The store answers, the round timer ticks through the  *)
(* first round and the inactivity timer fires.                              *)

IdleAnswers ==
    \/ Handlers
    \/ \E h \in handlers : GetGameStateLoaded(h)
    \/ \E h \in handlers : ExitGameClosed(h)
    \/ \E h \in handlers : InactivityClosed(h)

\* One second of the first round goes by
IdleTick ==
    \E iv \in intervals : InFirstRound /\ Tick(iv, [r \in Resources |-> 19])

IdleNext ==
    \/ Quiet /\ "G1" \notin DOMAIN db /\ CreateGame("s1", "G1", FALSE)
    \/ Quiet /\ nJoined = 0 /\ JoinGame("s2", "G1")
    \/ Quiet /\ nJoined = 1 /\ ticks = 0 /\ StartGame("s1")
    \/ \E s \in {"s1", "s2"} : Quiet /\ PlayerAction(s, "Buy", "gold", 1, 0)
    \/ \E s \in {"s1", "s2"} : Quiet /\ ExitGame(s)
    \/ Quiet /\ "G1" \notin DOMAIN activeGameStates /\ GetGameState("s2", "G1")
    \/ IdleAnswers
    \/ IdleTick
    \/ \E t \in timeouts : InactivityTimeout(t)

\* Every answer of the store arrives, the interval keeps ticking and every
\* pending timeout fires
SpecIdle ==
    /\ Init /\ [][IdleNext]_vars
    /\ WF_vars(IdleAnswers)
    /\ WF_vars(IdleTick)
    /\ WF_vars(\E t \in timeouts : InactivityTimeout(t))

\* C27: a playing session that gets no player-action and no exit-game from
\* some point on is eventually closed by its inactivity timer: it leaves
\* memory.  (In SpecIdle the clients send finitely many player-actions; a
\* behaviour ends with G1 playing in memory for ever and no timeout pending:
\* the inactivity timer closes the game, the store refuses the status
\* "closed" and keeps "playing", and get-game-state puts the playing session
\* back in memory without any timer.)
C27_IdleGameIsClosed ==
    ( /\ "G1" \in DOMAIN activeGameStates
      /\ activeGameStates["G1"].status = "playing" )
        ~> ("G1" \notin DOMAIN activeGameStates)

\* C28: with positive amounts and positive market prices, the tokens of every
\* player and each of their assets are never negative, whatever Buy, Sell,
\* Burn and Sabotage requests arrive (SpecBroke: gold at 600 or 950 tokens,
\* players starting with 1000).
C28_NothingNegative ==
    \A g \in DOMAIN activeGameStates :
        \A i \in 1..Len(activeGameStates[g].players) :
            LET player == activeGameStates[g].players[i]
            IN /\ player.tokens >= 0
               /\ \A r \in Resources : player.assets[r] >= 0

\* s2 has spent 950 of its 1000 tokens on one gold, and s1 has paid 100 to
\* sabotage it away: s2 holds no gold and cannot afford another action
C28_SpentAndSabotaged ==
    /\ "G1" \in DOMAIN activeGameStates
    /\ Len(activeGameStates["G1"].players) = 2
    /\ activeGameStates["G1"].marketPrices.gold = 950
    /\ activeGameStates["G1"].players[1].tokens = StartTokens - SabotageCost
    /\ activeGameStates["G1"].players[2].tokens = StartTokens - 950
    /\ activeGameStates["G1"].players[2].assets.gold = 0
    /\ nActions = 3

\* C29: within a session no two players have the same id, also when a client
\* joins the same waiting session twice with the same wallet address.
\* (join-game takes the wallet address as the id and does not look for a
\* player who has it already: s3 joins G1 twice and the session holds two
\* players with id 101.)
C29_PlayerIdsUnique ==
    \A g \in DOMAIN activeGameStates :
        \A i, j \in 1..Len(activeGameStates[g].players) :
            activeGameStates[g].players[i].id = activeGameStates[g].players[j].id
                => i = j

----------------------------------------------------------------------------
(* Joins side by side: s1 creates G1; then join-game for G1 arrives from    *)
(* s2 and s3, also while another join-game is suspended on the store.       *)

JoinsNext ==
    \/ Quiet /\ "G1" \notin DOMAIN db /\ CreateGame("s1", "G1", FALSE)
    \/ \E s \in {"s2", "s3"} :
          "G1" \in DOMAIN activeGameStates /\ JoinGame(s, "G1")
    \/ \E h \in handlers : DbExec(h)
    \/ \E h \in handlers : CreateGameResume(h)
    \/ \E h \in handlers : AddPlayerToGameLoaded(h)
    \/ \E h \in handlers : AddPlayerToGameUpdated(h)

SpecJoins == Init /\ [][JoinsNext]_vars

\* The client of socket s is a player in the list ps
PlaysIn(s, ps) == \E i \in 1..Len(ps) : ps[i].socketId = s

\* C30: no acknowledged join is lost.  Every client that has got game-joined
\* for G1 (it is in the room from then on) is a player of the session in
\* memory and, once no write is under way, a player in the persisted row.
\* (addPlayerToGame reads the row and then writes the list it read plus its
\* own player: of two joins that both read before either writes, the later
\* write drops the player of the earlier.)
C30_NoJoinLost ==
    \A s \in rooms["G1"] :
        /\ "G1" \in DOMAIN activeGameStates
              => PlaysIn(s, activeGameStates["G1"].players)
        /\ (Quiet /\ "G1" \in DOMAIN db) => PlaysIn(s, db["G1"].players)

----------------------------------------------------------------------------
(* Closed sessions *)

\* closeGame has removed the session of g and awaits the store
Closing(g) ==
    \E h \in handlers : h.at = "closeGame.updateGameStatus" /\ h.g = g

\* C31: once the session of G1 has been closed, G1 is never again in memory:
\* no later get-game-state or join-game installs it again.  (closeGame leaves
\* the row of the game in the store, and get-game-state rebuilds the session
\* from any row it finds: in SpecIdle s2 asks for the state of G1 after the
\* inactivity timer has closed it, and G1 is in memory again.)
C31_ClosedStaysOut ==
    [](Closing("G1") => []("G1" \notin DOMAIN activeGameStates))

----------------------------------------------------------------------------
(* Two games and the cleanup: s3 creates the public game G2 and leaves it   *)
(* waiting; s1 creates G1, s2 joins and s1 starts it.  Minutes go by while  *)
(* no timer is pending; the round timer of G1 ticks through the first       *)
(* round; the hourly cleanup runs.                                          *)

BatchNext ==
    \/ Quiet /\ "G2" \notin DOMAIN db /\ CreateGame("s3", "G2", FALSE)
    \/ \E isPrivate \in BOOLEAN :
          Quiet /\ "G1" \notin DOMAIN db /\ CreateGame("s1", "G1", isPrivate)
    \/ Quiet /\ nJoined = 0 /\ JoinGame("s2", "G1")
    \/ Quiet /\ nJoined = 1 /\ intervals = {} /\ ticks = 0 /\ StartGame("s1")
    \/ Handlers
    \/ IdleTick
    \/ \E minutes \in TimeSteps : Quiet /\ NoTimerPending /\ ClockAdvance(minutes)
    \/ Quiet /\ Cleanup
    \/ Cleaning

SpecBatch == Init /\ [][BatchNext]_vars

\* The row matches none of the three sweeps of the cleanup
Unswept(row) ==
    /\ ~StaleOpen(row, StaleMinutes)
    /\ ~Abandoned(row, AbandonedHours * 60)
    /\ ~OldFinished(row, FinishedHours * 60)

\* The round timers and inactivity timers of game g, pending and on record
TimersOf(g, gts, ivs, its, tos) ==
    << IF g \in DOMAIN gts THEN <<gts[g]>> ELSE <<>>,
       {iv \in ivs : iv.g = g},
       IF g \in DOMAIN its THEN <<its[g]>> ELSE <<>>,
       {to \in tos : to.g = g} >>

\* C32: no step of the cleanup removes from memory, or cancels the timers of,
\* a session whose status is playing and whose row matches none of the three
\* sweeps, whatever other games the same run deletes.  (When a sweep has
\* removed a row, the cleanup drops every session that public_games does not
\* list, and that view lists waiting games only: in SpecBatch the stale-open
\* sweep deletes the row of G2, and G1, playing, leaves memory with its round
\* timer and its inactivity timer.)
C32_PlayingSurvivesCleanup ==
    [][ Cleaning =>
          \A g \in DOMAIN activeGameStates :
              ( /\ activeGameStates[g].status = "playing"
                /\ g \in DOMAIN db
                /\ Unswept(db[g]) ) =>
                  /\ g \in DOMAIN activeGameStates'
                  /\ TimersOf(g, gameTimers', intervals', inactivityTimers', timeouts')
                       = TimersOf(g, gameTimers, intervals, inactivityTimers, timeouts) ]_vars

============================================================================
